---- MODULE Spec2Model ----
(***************************************************************************)
(* Frame-loop simulators of the AR overlay application: the snow overlay   *)
(* (falling flakes, a 1-D height field with decay, avalanche relaxation,   *)
(* overflow check and shake reset), the frost overlay (mask, strokes,      *)
(* drips) and the fireworks overlay (burst groups, trails, aging).         *)
(*                                                                         *)
(* Numbers.  Every length, velocity, size, field value and life is a       *)
(* fixed-point integer in hundredths (1.0 is 100); a value of              *)
(* Math.random() is an integer in thousandths (0 .. 999).  The rounding    *)
(* of IEEE floats (the height field is a Float32Array) is not modelled.    *)
(*                                                                         *)
(* Math.random().  The generator is a deterministic sequence with an       *)
(* unknown start: rng counts the calls made so far, the n-th call returns  *)
(* the n-th entry of a fixed cyclic table, and Init picks the start.       *)
(*                                                                         *)
(* The three overlays own disjoint state, so a behaviour observes one of   *)
(* them (overlay); the other two stay unmounted.                           *)
(***************************************************************************)
EXTENDS Integers, Sequences, FiniteSets, TLC

VARIABLES
    overlay,        \* the overlay this behaviour observes
    clock,          \* frame steps run so far (bounds the exploration)
    inputs,         \* prop changes made so far (bounds the exploration)
    rng,            \* calls of Math.random() made so far, modulo the table
    raf,            \* the frame callbacks of the mounted overlay that are pending
    \* ---- SnowOverlay (src/unnamed/part_001)
    snowMounted,    \* the component is mounted (its effects have run)
    snowPending,    \* a requestAnimationFrame(update) callback is pending
    snowActive,     \* prop isActive
    snowWidth,      \* prop width
    snowHeight,     \* prop height
    motionScore,    \* prop motionScore, in hundredths
    heightMap,      \* heightMapRef.current: NullField or [0 .. width-1 -> Nat]
    snowParticles,  \* particlesRef.current: sequence of flakes
    snowLog,        \* what the last run of update() did, phase by phase
    \* ---- FireworksOverlay (src/unnamed/part_003)
    fwMounted,      \* the component is mounted
    fwPending,      \* a requestAnimationFrame(update) callback is pending
    fwWidth,        \* prop width
    fwHeight,       \* prop height
    targetPosRef,   \* targetPosRef.current: the latest prop targetPosition
    isActiveRef,    \* isActiveRef.current: the latest prop isActive
    fwParticles,    \* particlesRef.current: sequence of particles
    lastEmitPos,    \* lastEmitPosRef.current: a point or NullPoint
    frameCount,     \* frameCountRef.current
    fwLog,          \* what the last run of update() did
    \* ---- FrostOverlay (src/unnamed/part_002)
    frMounted,      \* the component is mounted
    frPending,      \* a requestAnimationFrame(render) callback is pending
    frWidth,        \* prop width
    frHeight,       \* prop height
    resetKey,       \* prop resetKey
    drawingPoint,   \* prop drawingPoint: a point or NullPoint
    mask,           \* alpha of the mask canvas at the observed pixels
    drips,          \* dripsRef.current: sequence of drips
    lastPoint,      \* lastPointRef.current: a point or NullPoint
    frLog,          \* what the last run of render() did
    \* ---- getColor of FireworksOverlay, called on its own
    colorArg,       \* the particle getColor is called with, or NoParticle
    colorOut        \* the colour returned for it, <<r, g, b>>, or NoColor

snowVars == <<snowMounted, snowPending, snowActive, snowWidth, snowHeight,
              motionScore, heightMap, snowParticles, snowLog>>

fwVars == <<fwMounted, fwPending, fwWidth, fwHeight, targetPosRef, isActiveRef,
            fwParticles, lastEmitPos, frameCount, fwLog>>

frVars == <<frMounted, frPending, frWidth, frHeight, resetKey, drawingPoint,
            mask, drips, lastPoint, frLog>>

colorVars == <<colorArg, colorOut>>

vars == <<overlay, clock, inputs, rng, raf, snowVars, fwVars, frVars, colorVars>>

(***************************************************************************)
(* The frame callbacks of the overlay's loop.  queued counts the callbacks *)
(* that requestAnimationFrame has taken and that have neither run nor been *)
(* cancelled; live tells whether animationFrameRef.current names one of    *)
(* them.                                                                   *)
(***************************************************************************)
NoFrames == [queued |-> 0, live |-> FALSE]

\* animationFrameRef.current = requestAnimationFrame(update)
RequestFrame(q) == [queued |-> q.queued + 1, live |-> TRUE]

\* The browser takes the oldest pending callback and runs it; the ref names
\* the one requested last.
RunFrame(q) == [queued |-> q.queued - 1, live |-> q.live /\ q.queued > 1]

\* A faulty CancelFrame: the cleanup cancels nothing.
CancelNone(q) == q

\* The cleanup of the loop effect:
\* if (animationFrameRef.current) cancelAnimationFrame(animationFrameRef.current)
CancelFrame(q) == IF q.live THEN [queued |-> q.queued - 1, live |-> FALSE] ELSE q

(***************************************************************************)
(* Bounds of the exploration.                                              *)
(***************************************************************************)
MaxSnowFrames == 5
MaxSnowInputs == 2
\* The pool sizes of the source (300 at loop start, 400 as target) scaled
\* down so that every flake of the pool is modelled.
InitialPoolSize == 5
TargetPoolSize == 7
\* Fireworks: frame steps explored, prop changes, and the frames within
\* which the props change.
MaxFwFrames == 34
MaxFwInputs == 2
FwInputWindow == 9
\* Frost: frame steps explored, prop changes, the frames within which the
\* props change, and the spacing of the observed mask pixels.
MaxFrFrames == 24
MaxFrInputs == 2
FrInputWindow == 3
MaskStride == 4
\* The deposit scenario of the snow field: field width, column and height
\* (in hundredths) of a deposit event, and the number of deposit events.
PileWidth == 100
PileColumn == 50
PileDeposit == 500
MaxDeposits == 500

(***************************************************************************)
(* Arithmetic helpers.                                                     *)
(***************************************************************************)
Abs(n) == IF n < 0 THEN -n ELSE n

Min(a, b) == IF a < b THEN a ELSE b

Max(a, b) == IF a > b THEN a ELSE b

\* Division rounding toward zero, for signed fixed-point products.
TruncDiv(a, b) == IF a >= 0 THEN a \div b ELSE -((-a) \div b)

\* Math.sin of an angle in thousandths of a radian, in thousandths:
\* range reduction to [0, 2*pi) and Bhaskara's rational approximation.
SinMilli(a) ==
    LET t  == a % 6284
        x  == IF t > 3142 THEN t - 3142 ELSE t
        p  == (x * (3142 - x)) \div 1000
        s  == (16000 * p) \div (49360 - 4 * p)
    IN  IF t > 3142 THEN -s ELSE s

(***************************************************************************)
(* Math.random().                                                          *)
(***************************************************************************)
\* The cyclic table of the snow overlay.  An initial flake takes six calls
\* (start height, x, vx, vy, size, alpha).  LowFlake starts just above the
\* bottom edge in column 0, HighFlake one frame higher near the right edge;
\* both are fast and large.
LowFlake == <<999, 100, 500, 900, 999, 400>>

HighFlake == <<885, 900, 500, 900, 999, 400>>

SnowRandomTable ==
    LowFlake \o LowFlake \o LowFlake \o LowFlake \o LowFlake \o HighFlake

\* The starts of the sequence that Init chooses from.
SnowSeeds == {n \in 0 .. Len(SnowRandomTable) - 1 : n % 3 = 0}

\* The value of the call made when n calls have been made before it.
SnowRandom(n) == SnowRandomTable[(n % Len(SnowRandomTable)) + 1]

(***************************************************************************)
(* SnowOverlay: constants of update().                                     *)
(***************************************************************************)
DecayStride == 4
DecayFloor == 10          \* 0.1
DecayAmount == 2          \* 0.02
SlopeThreshold == 100     \* threshold = 1.0
SettleAmount == 40        \* settleAmount = 0.4
Passes == 3
OverflowStride == 20
OverflowMargin == 10      \* height - 10, in pixels
ProfileStride == 2
ProfileFloor == 50        \* 0.5
ResetThreshold == 30      \* motionScore > 0.3
DepositRadius == 8
CollisionDepth == 200     \* groundY + 2
SpawnY == -1000           \* startY = -10

(***************************************************************************)
(* The height field.                                                       *)
(***************************************************************************)
\* heightMapRef.current before the first effect has run (null).
NullField == [i \in {-1} |-> 0]

\* A faulty ZeroField: every cell of the fresh field holds 0.01.
ZeroFieldDusty(w) == [i \in 0 .. w - 1 |-> 1]

\* new Float32Array(width).fill(0)
ZeroField(w) == [i \in 0 .. w - 1 |-> 0]

Cells(h) == IF h = NullField THEN {} ELSE DOMAIN h

RECURSIVE SumUpTo(_, _)
SumUpTo(h, n) == IF n < 0 THEN 0 ELSE h[n] + SumUpTo(h, n - 1)

FieldSum(h) == IF h = NullField THEN 0 ELSE SumUpTo(h, Cardinality(DOMAIN h) - 1)

FieldMax(h) ==
    IF h = NullField THEN 0
    ELSE CHOOSE m \in {h[i] : i \in DOMAIN h} : \A i \in DOMAIN h : h[i] <= m

\* A faulty DecayCell: the guard and the clamp at zero are dropped.
DecayCellUnguarded(v) == v - DecayAmount

\* A faulty DecayCell: the decay is added instead of subtracted.
DecayCellGrowing(v) == IF v > DecayFloor THEN v + DecayAmount ELSE v

\* 1. compaction and melting: every 4th cell above 0.1 loses 0.02.
DecayCell(v) == IF v > DecayFloor THEN Max(v - DecayAmount, 0) ELSE v

Decay(h, w) ==
    [i \in 0 .. w - 1 |-> IF i % DecayStride = 0 THEN DecayCell(h[i]) ELSE h[i]]

\* A faulty Settle: the receiving cell gains but the giving cell keeps its
\* height.
SettleNoDebit(h, i, j) ==
    IF h[i] > h[j] + SlopeThreshold
    THEN [h EXCEPT ![j] = @ + SettleAmount]
    ELSE h

\* One visit of the pair (i, j): cell i gives settleAmount to its neighbour j
\* when it is more than the threshold above it.
Settle(h, i, j) ==
    IF h[i] > h[j] + SlopeThreshold
    THEN [h EXCEPT ![i] = @ - SettleAmount, ![j] = @ + SettleAmount]
    ELSE h

\* The visits of cells lo .. hi against their right neighbours, in
\* ascending order: the lower half of the range, then the upper half.  The
\* range is split only to keep the evaluation shallow.
RECURSIVE SweepRightRange(_, _, _)
SweepRightRest(h, lo, hi) ==
    IF DOMAIN h # {} THEN SweepRightRange(h, lo, hi) ELSE h

SweepRightRange(h, lo, hi) ==
    IF lo > hi THEN h
    ELSE IF lo = hi THEN Settle(h, lo, lo + 1)
    ELSE SweepRightRest(SweepRightRange(h, lo, (lo + hi) \div 2), (lo + hi) \div 2 + 1, hi)

\* for (i = 1; i < width - 1; i++): cell i against its right neighbour.
SweepRight(h, i, w) == SweepRightRange(h, i, w - 2)

\* The visits of cells hi .. lo against their left neighbours, in
\* descending order: the upper half of the range, then the lower half.
RECURSIVE SweepLeftRange(_, _, _)
SweepLeftRest(h, hi, lo) ==
    IF DOMAIN h # {} THEN SweepLeftRange(h, hi, lo) ELSE h

SweepLeftRange(h, hi, lo) ==
    IF hi < lo THEN h
    ELSE IF hi = lo THEN Settle(h, hi, hi - 1)
    ELSE SweepLeftRest(SweepLeftRange(h, hi, (lo + hi) \div 2 + 1), (lo + hi) \div 2, lo)

\* for (i = width - 2; i > 0; i--): cell i against its left neighbour.
SweepLeft(h, i) == SweepLeftRange(h, i, 1)

\* One pass: the sweep to the right is run to its end, then the sweep to
\* the left, then the passes that remain.
RECURSIVE RelaxPasses(_, _, _)
RelaxLeft(h, w) == IF DOMAIN h # {} THEN SweepLeft(h, w - 2) ELSE h

RelaxRest(h, w, n) == IF DOMAIN h # {} THEN RelaxPasses(h, w, n) ELSE h

RelaxPasses(h, w, n) ==
    IF n = 0 THEN h
    ELSE RelaxRest(RelaxLeft(SweepRight(h, 1, w), w), w, n - 1)

\* 2. smoothing (avalanche effect).
Relax(h, w) == RelaxPasses(h, w, Passes)

\* 3. overflow check on every 20th cell.
Overflow(h, w, ht) ==
    \E i \in 0 .. w - 1 :
        i % OverflowStride = 0 /\ h[i] >= (ht - OverflowMargin) * 100

\* 4. the profile handed to the renderer: the y of lineTo at x = 0, 2, 4, ...
ProfileOf(h, w, ht) ==
    [x \in {i \in 0 .. w - 1 : i % ProfileStride = 0} |->
        IF h[x] > ProfileFloor THEN ht * 100 - h[x] ELSE ht * 100]

\* A faulty RenderedField: the clear of step 5 is applied before step 4.
RenderedFieldAfterClear(relaxed, afterReset) == afterReset

\* The field the profile of step 4 is drawn from: update() renders (step 4)
\* before it clears (step 5).
RenderedField(relaxed, afterReset) == relaxed

\* A faulty ShouldReset: the overflow flag is ignored.
ShouldResetMotionOnly(motion, overflow) == motion > ResetThreshold

\* 5. shake / clear condition.
ShouldReset(motion, overflow) == motion > ResetThreshold \/ overflow

\* Math.exp(-(dist*dist) / (2 * (radius/2) * (radius/2))), in thousandths.
Falloff(dist) == <<1000, 969, 882, 755, 607, 458, 325, 216, 135>>[dist + 1]

\* A faulty Deposit: the kernel reaches one column too far.
DepositWide(h, w, pX, size) ==
    [i \in 0 .. w - 1 |->
        IF Abs(i - pX) <= DepositRadius + 1
        THEN h[i] + (size * Falloff(Min(Abs(i - pX), DepositRadius))) \div 2000
        ELSE h[i]]

\* hMap[nx] += p.size * 0.5 * falloff for nx within the radius of pX.
Deposit(h, w, pX, size) ==
    [i \in 0 .. w - 1 |->
        IF Abs(i - pX) <= DepositRadius
        THEN h[i] + (size * Falloff(Abs(i - pX))) \div 2000
        ELSE h[i]]

(***************************************************************************)
(* Flakes.                                                                 *)
(***************************************************************************)
\* createParticle(w, h, startY) when n calls of Math.random() precede it:
\* x, vx, vy, size and alpha take one call each, in this order.
CreateParticle(w, startY, n) ==
    [x    |-> (SnowRandom(n) * w) \div 10,
     y    |-> startY,
     vx   |-> TruncDiv(SnowRandom(n + 1) - 500, 20),
     vy   |-> 80 + (SnowRandom(n + 2) * 15) \div 100,
     size |-> 150 + SnowRandom(n + 3) \div 5,
     alpha |-> 600 + (SnowRandom(n + 4) * 4) \div 10]

CreateCalls == 5

\* The initial pool: createParticle(width, height, Math.random() * height),
\* the start height drawn before the five draws of createParticle.
RECURSIVE InitialParticles(_, _, _, _)
InitialParticles(w, ht, n, k) ==
    IF k = 0 THEN <<>>
    ELSE <<CreateParticle(w, (SnowRandom(n) * ht) \div 10, n + 1)>>
         \o InitialParticles(w, ht, n + 1 + CreateCalls, k - 1)

\* A faulty Move: a flake leaving on the left re-enters at the left edge.
MoveNoCross(p, w) ==
    LET y1 == p.y + p.vy
        x1 == p.x + p.vx + TruncDiv(50 * SinMilli(TruncDiv(y1, 5)), 1000)
        x2 == IF x1 < 0 THEN 0 ELSE x1
        x3 == IF x2 > w * 100 THEN 0 ELSE x2
    IN  [p EXCEPT !.x = x3, !.y = y1]

\* p.x += p.vx; p.y += p.vy; p.x += Math.sin(p.y * 0.02) * 0.5; then the
\* horizontal wrap.
Move(p, w) ==
    LET y1 == p.y + p.vy
        x1 == p.x + p.vx + TruncDiv(50 * SinMilli(TruncDiv(y1, 5)), 1000)
        x2 == IF x1 < 0 THEN w * 100 ELSE x1
        x3 == IF x2 > w * 100 THEN 0 ELSE x2
    IN  [p EXCEPT !.x = x3, !.y = y1]

\* Math.floor(p.x)
Column(p) == p.x \div 100

\* A faulty Collides: the flake must sink twice as deep before it lands.
CollidesDeep(p, h, w, ht) ==
    /\ h # NullField
    /\ Column(p) >= 0 /\ Column(p) < w
    /\ p.y >= ht * 100 - h[Column(p)] + 2 * CollisionDepth

\* Collision with the snowbank: p.y >= groundY + 2.
Collides(p, h, w, ht) ==
    /\ h # NullField
    /\ Column(p) >= 0 /\ Column(p) < w
    /\ p.y >= ht * 100 - h[Column(p)] + CollisionDepth

\* A faulty PastBottom: the failsafe waits ten pixels below the edge.
PastBottomDeep(p, ht) == p.y > ht * 100 + 1000

\* Failsafe bottom: p.y > height.
PastBottom(p, ht) == p.y > ht * 100

\* The body of the loop for the flake at index i, p being the flake after
\* its move.
StepOne(acc, i, w, ht, p) ==
    IF Collides(p, acc.h, w, ht)
    THEN [acc EXCEPT
            !.h = Deposit(acc.h, w, Column(p), p.size),
            !.ps[i] = CreateParticle(w, SpawnY, acc.n),
            !.n = acc.n + CreateCalls,
            !.deposits = @ + 1,
            !.hits = @ \cup {[col |-> Column(p), size |-> p.size, y |-> p.y,
                              pile |-> acc.h[Column(p)]]}]
    ELSE
      LET exit   == PastBottom(p, ht)
          ground == IF acc.h # NullField /\ Column(p) < w
                    THEN acc.h[Column(p)] ELSE 0
          y      == IF exit THEN SpawnY ELSE p.y
      IN  [acc EXCEPT
             !.ps[i] = IF exit THEN CreateParticle(w, SpawnY, acc.n) ELSE p,
             !.n = IF exit THEN acc.n + CreateCalls ELSE acc.n,
             !.exits = @ \cup (IF exit
                               THEN {[col |-> Column(p), y |-> p.y,
                                      pile |-> ground]}
                               ELSE {}),
             !.drawn = @ + (IF y < ht * 100 - ground THEN 1 ELSE 0)]

\* 6. one pass over the pool from the last index down to the first.  acc
\* carries the pool, the field, the call count and what the pass did.
RECURSIVE StepParticles(_, _, _, _)
StepParticles(acc, i, w, ht) ==
    IF i < 1 THEN acc
    ELSE StepParticles(StepOne(acc, i, w, ht, Move(acc.ps[i], w)), i - 1, w, ht)

(***************************************************************************)
(* update(): one frame step of the snow overlay.                           *)
(***************************************************************************)
\* Steps 5 and 6, the replenishment between them and the record of the run,
\* given the field after decay and after relaxation and the overflow flag.
SnowFinish(active, w, ht, motion, hMap, ps, n, decayed, relaxed, overflow, afterReset, acc) ==
    [heightMap |-> acc.h,
     particles |-> acc.ps,
     rng       |-> acc.n % Len(SnowRandomTable),
     log       |-> [ran |-> TRUE, active |-> active, motion |-> motion,
                    start |-> hMap, decayed |-> decayed, relaxed |-> relaxed,
                    overflow |-> overflow,
                    cleared |-> ShouldReset(motion, overflow) /\ hMap # NullField,
                    afterReset |-> afterReset,
                    profile |-> IF hMap # NullField
                                THEN ProfileOf(RenderedField(relaxed, afterReset), w, ht)
                                ELSE <<>>,
                    sizeBefore |-> Len(ps),
                    spawned |-> Len(acc.ps) - Len(ps),
                    deposits |-> acc.deposits, exits |-> acc.exits,
                    drawn |-> acc.drawn, hits |-> acc.hits]]

\* A faulty SnowPool: the replenishment compares with <= instead of <.
SnowPoolOffByOne(active, w, ht, ps, n, afterReset) ==
    LET acc0 == [ps |-> ps, h |-> afterReset, n |-> n,
                 deposits |-> 0, exits |-> {}, drawn |-> 0, hits |-> {}]
    IN  IF ~active /\ Len(ps) = 0 THEN acc0
        ELSE IF active /\ Len(ps) <= TargetPoolSize
        THEN StepParticles([acc0 EXCEPT
                              !.ps = Append(ps, CreateParticle(w, SpawnY, n)),
                              !.n = n + CreateCalls],
                           Len(ps) + 1, w, ht)
        ELSE StepParticles(acc0, Len(ps), w, ht)

\* The pool pass of one run: nothing when the overlay is inactive with an
\* empty pool, else one flake more while active below the target, then the
\* loop over the pool.
SnowPool(active, w, ht, ps, n, afterReset) ==
    LET acc0 == [ps |-> ps, h |-> afterReset, n |-> n,
                 deposits |-> 0, exits |-> {}, drawn |-> 0, hits |-> {}]
    IN  IF ~active /\ Len(ps) = 0 THEN acc0
        ELSE IF active /\ Len(ps) < TargetPoolSize
        THEN StepParticles([acc0 EXCEPT
                              !.ps = Append(ps, CreateParticle(w, SpawnY, n)),
                              !.n = n + CreateCalls],
                           Len(ps) + 1, w, ht)
        ELSE StepParticles(acc0, Len(ps), w, ht)

SnowReset(active, w, ht, motion, hMap, ps, n, decayed, relaxed, overflow, afterReset) ==
    SnowFinish(active, w, ht, motion, hMap, ps, n, decayed, relaxed, overflow,
               afterReset, SnowPool(active, w, ht, ps, n, afterReset))

\* A faulty SnowCheck: the field is never filled with zero.
SnowCheckNoFill(active, w, ht, motion, hMap, ps, n, decayed, relaxed, overflow) ==
    SnowReset(active, w, ht, motion, hMap, ps, n, decayed, relaxed, overflow,
              relaxed)

SnowCheck(active, w, ht, motion, hMap, ps, n, decayed, relaxed, overflow) ==
    SnowReset(active, w, ht, motion, hMap, ps, n, decayed, relaxed, overflow,
              IF ShouldReset(motion, overflow) /\ hMap # NullField
              THEN ZeroField(w) ELSE relaxed)

SnowRelax(active, w, ht, motion, hMap, ps, n, decayed, relaxed) ==
    SnowCheck(active, w, ht, motion, hMap, ps, n, decayed, relaxed,
              hMap # NullField /\ Overflow(relaxed, w, ht))

SnowDecay(active, w, ht, motion, hMap, ps, n, decayed) ==
    SnowRelax(active, w, ht, motion, hMap, ps, n, decayed,
              IF hMap # NullField THEN Relax(decayed, w) ELSE hMap)

SnowUpdate(active, w, ht, motion, hMap, ps, n) ==
    SnowDecay(active, w, ht, motion, hMap, ps, n,
              IF hMap # NullField THEN Decay(hMap, w) ELSE hMap)

\* A faulty SnowLoopStart: the initial flakes are pushed at every start of
\* the loop.
SnowLoopStartRefills(active, w, ht, motion, hMap, ps, n) ==
    SnowUpdate(active, w, ht, motion, hMap,
               ps \o InitialParticles(w, ht, n, InitialPoolSize),
               n + InitialPoolSize * (1 + CreateCalls))

\* The loop effect: fill an empty pool with the initial flakes, then run
\* update() once; update() leaves a frame callback pending.
SnowLoopStart(active, w, ht, motion, hMap, ps, n) ==
    LET fill == Len(ps) = 0
        ps0  == IF fill THEN InitialParticles(w, ht, n, InitialPoolSize) ELSE ps
        n0   == IF fill THEN n + InitialPoolSize * (1 + CreateCalls) ELSE n
    IN  SnowUpdate(active, w, ht, motion, hMap, ps0, n0)

NoSnowLog == [ran |-> FALSE]

SnowSizes == {<<5, 20>>, <<6, 12>>}

MotionScores == {0, 30, 50}

\* What a run of update() writes.  The log also keeps the field that
\* heightMapRef held before the step (held), which a resize replaces.
SnowApply(u) ==
    /\ heightMap' = u.heightMap
    /\ snowParticles' = u.particles
    /\ rng' = u.rng
    /\ snowLog' = [held |-> heightMap] @@ u.log
    /\ snowPending' = TRUE

\* Mount: the height-map effect, then the loop effect.
SnowMountStep ==
    /\ overlay = "snow" /\ ~snowMounted
    /\ snowMounted' = TRUE
    /\ SnowApply(SnowLoopStart(snowActive, snowWidth, snowHeight, motionScore,
                               ZeroField(snowWidth), snowParticles, rng))
    /\ raf' = RequestFrame(raf)
    /\ UNCHANGED <<colorVars, fwVars, frVars, overlay, inputs, snowActive, snowWidth, snowHeight, motionScore>>

SnowMount == clock < MaxSnowFrames /\ SnowMountStep /\ clock' = clock + 1

\* The pending frame callback runs update().
SnowFrameStep ==
    /\ overlay = "snow" /\ snowMounted /\ snowPending
    /\ SnowApply(SnowUpdate(snowActive, snowWidth, snowHeight, motionScore,
                            heightMap, snowParticles, rng))
    /\ raf' = RequestFrame(RunFrame(raf))
    /\ UNCHANGED <<colorVars, fwVars, frVars, overlay, inputs, snowMounted, snowActive, snowWidth,
                   snowHeight, motionScore>>

SnowFrame == clock < MaxSnowFrames /\ SnowFrameStep /\ clock' = clock + 1

\* isActive changes: the loop effect is cleaned up (the pending callback is
\* cancelled) and runs again.
SnowSetActive ==
    /\ overlay = "snow" /\ snowMounted
    /\ inputs < MaxSnowInputs /\ clock < MaxSnowFrames
    /\ snowActive' = ~snowActive
    /\ SnowApply(SnowLoopStart(snowActive', snowWidth, snowHeight, motionScore,
                               heightMap, snowParticles, rng))
    /\ clock' = clock + 1 /\ inputs' = inputs + 1
    /\ raf' = RequestFrame(CancelFrame(raf))
    /\ UNCHANGED <<colorVars, fwVars, frVars, overlay, snowMounted, snowWidth, snowHeight, motionScore>>

\* motionScore changes: the loop effect restarts.
SnowSetMotion ==
    /\ overlay = "snow" /\ snowMounted
    /\ inputs < MaxSnowInputs /\ clock < MaxSnowFrames
    /\ \E m \in MotionScores \ {motionScore} :
         /\ motionScore' = m
         /\ SnowApply(SnowLoopStart(snowActive, snowWidth, snowHeight, m,
                                    heightMap, snowParticles, rng))
    /\ clock' = clock + 1 /\ inputs' = inputs + 1
    /\ raf' = RequestFrame(CancelFrame(raf))
    /\ UNCHANGED <<colorVars, fwVars, frVars, overlay, snowMounted, snowActive, snowWidth, snowHeight>>

\* width or height changes: the height-map effect allocates a fresh field,
\* then the loop effect restarts.
SnowResize ==
    /\ overlay = "snow" /\ snowMounted
    /\ inputs < MaxSnowInputs /\ clock < MaxSnowFrames
    /\ \E s \in SnowSizes \ {<<snowWidth, snowHeight>>} :
         /\ snowWidth' = s[1] /\ snowHeight' = s[2]
         /\ SnowApply(SnowLoopStart(snowActive, s[1], s[2], motionScore,
                                    ZeroField(s[1]), snowParticles, rng))
    /\ clock' = clock + 1 /\ inputs' = inputs + 1
    /\ raf' = RequestFrame(CancelFrame(raf))
    /\ UNCHANGED <<colorVars, fwVars, frVars, overlay, snowMounted, snowActive, motionScore>>

\* Unmount: the cleanup of the loop effect cancels the pending callback.
SnowUnmount ==
    /\ overlay = "snow" /\ snowMounted
    /\ snowMounted' = FALSE /\ snowPending' = FALSE
    /\ heightMap' = NullField /\ snowParticles' = <<>> /\ snowLog' = NoSnowLog
    /\ clock' = MaxSnowFrames
    /\ raf' = CancelFrame(raf)
    /\ UNCHANGED <<colorVars, fwVars, frVars, overlay, inputs, rng, snowActive, snowWidth, snowHeight,
                   motionScore>>

SnowNext ==
    \/ SnowMount
    \/ SnowFrame
    \/ SnowSetActive
    \/ SnowSetMotion
    \/ SnowResize
    \/ SnowUnmount

SnowStart ==
    /\ snowMounted = FALSE /\ snowPending = FALSE
    /\ snowActive \in (IF overlay = "snow" THEN BOOLEAN ELSE {FALSE})
    /\ \E s \in (IF overlay = "snow" THEN SnowSizes ELSE {<<5, 20>>}) :
         snowWidth = s[1] /\ snowHeight = s[2]
    /\ motionScore \in (IF overlay = "snow" THEN MotionScores ELSE {0})
    /\ heightMap = NullField
    /\ snowParticles = <<>>
    /\ snowLog = NoSnowLog

(***************************************************************************)
(* FireworksOverlay (src/unnamed/part_003).                                *)
(***************************************************************************)
\* The value null of a Point | null.
NullPoint == [null |-> TRUE]

\* The cyclic table of the fireworks overlay.  A group takes one call for
\* its palette and five per particle (layer, speed, size, life, angle); the
\* table length is coprime to five, so a group holds all three layers and
\* the shortest life of each.
FwRandomTable == <<100, 500, 300, 0, 125, 450, 800, 950, 50, 650, 350>>

FwSeeds == {0, 4}

FwRandom(n) == FwRandomTable[(n % Len(FwRandomTable)) + 1]

GroupSize == 18
ParticleCalls == 5
HistoryLimit == 8
EmitPeriod == 4
PaletteCount == 3
CoreBelow == 200
MidBelow == 600
MidGravity == 15
OuterDrag == 92
OuterGravity == 10
LifeStep == 100

\* Math.cos in thousandths of an angle in thousandths of a radian.
CosMilli(a) == SinMilli(a + 1571)

LayerOf(r) == IF r < CoreBelow THEN "core" ELSE IF r < MidBelow THEN "mid" ELSE "outer"

SpeedOf(layer, r) ==
    CASE layer = "core"  -> 500 + (r * 300) \div 1000
      [] layer = "mid"   -> 800 + (r * 400) \div 1000
      [] layer = "outer" -> 1200 + (r * 600) \div 1000

SizeOf(layer, r) ==
    CASE layer = "core"  -> 100 + (r * 100) \div 1000
      [] layer = "mid"   -> 200 + (r * 200) \div 1000
      [] layer = "outer" -> 300 + (r * 200) \div 1000

LifeOf(layer, r) ==
    CASE layer = "core"  -> 3000 + (r * 2000) \div 1000
      [] layer = "mid"   -> 4000 + (r * 3000) \div 1000
      [] layer = "outer" -> 5000 + (r * 3000) \div 1000

AngleOf(r) == (r * 6283) \div 1000

\* The particle object pushed by createGroup.
NewParticle(origin, palette, layer, speed, size, life, angle) ==
    [x |-> origin.x, y |-> origin.y,
     vx |-> TruncDiv(CosMilli(angle) * speed, 1000),
     vy |-> TruncDiv(SinMilli(angle) * speed, 1000),
     history |-> <<>>, life |-> life, maxLife |-> life, size |-> size,
     layer |-> layer, palette |-> palette]

\* A faulty GroupParticle: each particle draws a palette of its own.
GroupParticleOwnPalette(origin, palette, layer, n) ==
    NewParticle(origin, (FwRandom(n + 1) * PaletteCount) \div 1000, layer,
                SpeedOf(layer, FwRandom(n + 1)), SizeOf(layer, FwRandom(n + 2)),
                LifeOf(layer, FwRandom(n + 3)), AngleOf(FwRandom(n + 4)))

\* One particle of createGroup, its five calls starting at call n.
GroupParticle(origin, palette, layer, n) ==
    NewParticle(origin, palette, layer,
                SpeedOf(layer, FwRandom(n + 1)), SizeOf(layer, FwRandom(n + 2)),
                LifeOf(layer, FwRandom(n + 3)), AngleOf(FwRandom(n + 4)))

\* createGroup(origin): the particles pushed, in order.
CreateGroup(origin, n) ==
    [i \in 1 .. GroupSize |->
        GroupParticle(origin, (FwRandom(n) * PaletteCount) \div 1000,
                      LayerOf(FwRandom(n + 1 + ParticleCalls * (i - 1))),
                      n + 1 + ParticleCalls * (i - 1))]

GroupCalls == 1 + GroupSize * ParticleCalls

\* A coordinate that is NaN or an infinity.  Sums, differences and halves of
\* it are again not finite, so one value stands for all of them.
NonFinite == -100000000

\* isFinite(v)
IsFinite(v) == v # NonFinite

\* a + b of two coordinates.
Plus(a, b) == IF IsFinite(a) /\ IsFinite(b) THEN a + b ELSE NonFinite

\* last + (target - last) * 0.5
Toward(last, target) ==
    IF IsFinite(last) /\ IsFinite(target) THEN last + TruncDiv(target - last, 2) ELSE NonFinite

\* A faulty GlowDrawn: the coordinates are not tested.
GlowDrawnUnguarded(emitPos) == TRUE

\* The centre glow is drawn: isFinite(emitPos.x) && isFinite(emitPos.y).
GlowDrawn(emitPos) == IsFinite(emitPos.x) /\ IsFinite(emitPos.y)

\* A faulty EmitPos: the raw target, no smoothing.
EmitPosRaw(last, target) == target

\* The smoothed emit position: halfway from the last one to the target.
EmitPos(last, target) ==
    IF last = NullPoint THEN target
    ELSE [x |-> Toward(last.x, target.x), y |-> Toward(last.y, target.y)]

\* A faulty RemoveAt: the element after index i is the one taken out.
RemoveAfter(s, i) == IF i < Len(s) THEN SubSeq(s, 1, i) \o SubSeq(s, i + 2, Len(s)) ELSE SubSeq(s, 1, i - 1)

RemoveAt(s, i) == SubSeq(s, 1, i - 1) \o SubSeq(s, i + 1, Len(s))

\* A faulty PushHistory: a full trail drops the new position.
PushHistoryKeepsOldest(hist, pt) ==
    IF Len(hist) + 1 > HistoryLimit THEN hist ELSE Append(hist, pt)

PushHistory(hist, pt) ==
    IF Len(hist) + 1 > HistoryLimit THEN Tail(Append(hist, pt)) ELSE Append(hist, pt)

\* The physics of one particle in the loop of update().
Advance(p) ==
    [p EXCEPT !.history = PushHistory(p.history, [x |-> p.x, y |-> p.y]),
              !.x = Plus(p.x, p.vx),
              !.y = Plus(p.y, p.vy),
              !.vx = IF p.layer = "outer" THEN TruncDiv(p.vx * OuterDrag, 100) ELSE p.vx,
              !.vy = CASE p.layer = "mid"   -> p.vy + MidGravity
                       [] p.layer = "outer" -> TruncDiv(p.vy * OuterDrag, 100) + OuterGravity
                       [] OTHER             -> p.vy,
              !.life = p.life - LifeStep]

\* A removal test that lets a particle of life exactly 0 stay.
ExpiredBelowZero(p) == p.life < 0

\* The removal test of the loop.
Expired(p) == p.life <= 0

\* One turn of the loop of update(), at index i: an expired particle is
\* spliced out at once, any other is drawn.  kept lists, for the particles
\* that stay, the index each had when the loop began.
AgeOne(acc, i, q) ==
    IF Expired(q)
    THEN [ps |-> RemoveAt(acc.ps, i), removed |-> acc.removed + 1, drawn |-> acc.drawn,
          kept |-> acc.kept]
    ELSE [ps |-> [acc.ps EXCEPT ![i] = q], removed |-> acc.removed,
          drawn |-> acc.drawn + 1, kept |-> <<i>> \o acc.kept]

\* The turns of the loop for i from hi down to lo, in that order: the upper
\* half of the range is run to its end, then the lower half.  The range is
\* split only to keep the evaluation shallow.
RECURSIVE AgeRange(_, _, _)
AgeLower(upper, mid, lo) ==
    IF upper.removed >= 0 THEN AgeRange(upper, mid, lo) ELSE upper

AgeRange(acc, hi, lo) ==
    IF hi < lo THEN acc
    ELSE IF hi = lo THEN AgeOne(acc, hi, Advance(acc.ps[hi]))
    ELSE AgeLower(AgeRange(acc, hi, (hi + lo) \div 2 + 1), (hi + lo) \div 2, lo)

\* The loop of update(): for (i = length - 1; i >= 0; i--).
AgeParticles(acc, n) == AgeRange(acc, n, 1)

\* update(), after the generation step: the particle loop and the log.
\* io holds what update() read (target, active, the pool and lastEmitPos at
\* its start); ps is the pool after the generation step.
FwFinish(io, fc, last, ps, n, emitted, emitPos, aged) ==
    [particles |-> aged.ps, lastEmitPos |-> last, frameCount |-> fc,
     rng |-> n % Len(FwRandomTable),
     log |-> [ran |-> TRUE, frame |-> fc, target |-> io.target, active |-> io.active,
              start |-> Len(io.ps), lastBefore |-> io.last,
              emitted |-> emitted, emitPos |-> emitPos,
              glow |-> emitted /\ GlowDrawn(emitPos),
              spawned |-> SubSeq(ps, Len(io.ps) + 1, Len(ps)),
              before |-> Len(ps), removed |-> aged.removed,
              drawn |-> aged.drawn, kept |-> aged.kept, after |-> Len(aged.ps)]]

FwAge(io, fc, last, ps, n, emitted, emitPos) ==
    FwFinish(io, fc, last, ps, n, emitted, emitPos,
             AgeParticles([ps |-> ps, removed |-> 0, drawn |-> 0, kept |-> <<>>],
                          Len(ps)))

\* A faulty EmitFrame: every frame emits.
EmitFrameAlways(fc) == TRUE

\* A faulty EmitFrame: every second frame emits.
EmitFrameEverySecond(fc) == fc % 2 = 0

\* frameCountRef.current % 4 === 0
EmitFrame(fc) == fc % EmitPeriod = 0

\* The generation step with a target while active.
FwGenerate(io, fc, ps, n, emitPos) ==
    IF EmitFrame(fc)
    THEN FwAge(io, fc, emitPos, ps \o CreateGroup(emitPos, n), n + GroupCalls, TRUE,
               emitPos)
    ELSE FwAge(io, fc, emitPos, ps, n, FALSE, emitPos)

\* A faulty Generates: the isActive flag is ignored.
GeneratesWithoutActive(target, active) == target # NullPoint

\* The condition of the generation step: currentActive && currentTarget.
Generates(target, active) == active /\ target # NullPoint

\* A faulty FwRun: a run that generates nothing keeps the tracked point.
FwRunKeepsPoint(io, fc, n) ==
    IF Generates(io.target, io.active)
    THEN FwGenerate(io, fc + 1, io.ps, n, EmitPos(io.last, io.target))
    ELSE FwAge(io, fc + 1, io.last, io.ps, n, FALSE, NullPoint)

FwRun(io, fc, n) ==
    IF Generates(io.target, io.active)
    THEN FwGenerate(io, fc + 1, io.ps, n, EmitPos(io.last, io.target))
    ELSE FwAge(io, fc + 1, NullPoint, io.ps, n, FALSE, NullPoint)

\* update(): count the frame, generate, then age and draw the particles.
FwUpdate(target, active, ps, last, fc, n) ==
    FwRun([target |-> target, active |-> active, ps |-> ps, last |-> last], fc, n)

NoFwLog == [ran |-> FALSE, lastGroup |-> NullPoint, gap |-> FALSE, resumed |-> FALSE]

\* The ref-sync effect has stored new props.  gap notes that, since the
\* last run of update(), the refs have held an inactive flag or no target.
PropsNoted(log, target, active) ==
    [log EXCEPT !.gap = @ \/ ~(active /\ target # NullPoint)]

FwSizes == {<<64, 48>>, <<48, 64>>}

FwTargets == {[x |-> 1000, y |-> 1000], [x |-> 4200, y |-> 2600]}

\* Bookkeeping for the properties: the origin of the latest group emitted
\* since update() last ran without generating, NullPoint if there is none.
LastGroup(prev, now) ==
    IF now.emitted THEN now.emitPos
    ELSE IF now.active /\ now.target # NullPoint /\ prev.ran THEN prev.lastGroup
    ELSE NullPoint

FwApply(u) ==
    /\ fwParticles' = u.particles
    /\ lastEmitPos' = u.lastEmitPos
    /\ frameCount' = u.frameCount
    /\ rng' = u.rng
    /\ fwLog' = [lastGroup |-> LastGroup(fwLog, u.log), gap |-> FALSE,
                resumed |-> fwLog.gap] @@ u.log
    /\ fwPending' = TRUE

\* Mount: the ref-sync effect, then the loop effect, which runs update().
FwMount ==
    /\ overlay = "fireworks" /\ ~fwMounted
    /\ clock < MaxFwFrames
    /\ fwMounted' = TRUE
    /\ FwApply(FwUpdate(targetPosRef, isActiveRef, fwParticles, lastEmitPos,
                        frameCount, rng))
    /\ clock' = clock + 1
    /\ raf' = RequestFrame(raf)
    /\ UNCHANGED <<colorVars, snowVars, frVars, overlay, inputs, fwWidth, fwHeight, targetPosRef, isActiveRef>>

\* The pending frame callback runs update().
FwFrame ==
    /\ overlay = "fireworks" /\ fwMounted /\ fwPending
    /\ clock < MaxFwFrames
    /\ FwApply(FwUpdate(targetPosRef, isActiveRef, fwParticles, lastEmitPos,
                        frameCount, rng))
    /\ clock' = clock + 1
    /\ raf' = RequestFrame(RunFrame(raf))
    /\ UNCHANGED <<colorVars, snowVars, frVars, overlay, inputs, fwMounted, fwWidth, fwHeight, targetPosRef,
                   isActiveRef>>

\* targetPosition changes: the ref-sync effect stores it; the loop goes on.
FwSetTarget ==
    /\ overlay = "fireworks" /\ fwMounted
    /\ inputs < MaxFwInputs /\ clock < FwInputWindow
    /\ \E t \in (FwTargets \cup {NullPoint}) \ {targetPosRef} : targetPosRef' = t
    /\ inputs' = inputs + 1
    /\ UNCHANGED <<raf, colorVars, snowVars, frVars, overlay, clock, rng, fwMounted, fwPending, fwWidth, fwHeight,
                   isActiveRef, fwParticles, lastEmitPos, frameCount>>
    /\ fwLog' = PropsNoted(fwLog, targetPosRef', isActiveRef')

\* isActive changes: the ref-sync effect stores it; the loop goes on.
FwSetActive ==
    /\ overlay = "fireworks" /\ fwMounted
    /\ inputs < MaxFwInputs /\ clock < FwInputWindow
    /\ isActiveRef' = ~isActiveRef
    /\ inputs' = inputs + 1
    /\ UNCHANGED <<raf, colorVars, snowVars, frVars, overlay, clock, rng, fwMounted, fwPending, fwWidth, fwHeight,
                   targetPosRef, fwParticles, lastEmitPos, frameCount>>
    /\ fwLog' = PropsNoted(fwLog, targetPosRef', isActiveRef')

\* width or height changes: the loop effect is cleaned up (the pending
\* callback is cancelled) and runs again, calling update() at once.
FwResize ==
    /\ overlay = "fireworks" /\ fwMounted
    /\ inputs < MaxFwInputs /\ clock < FwInputWindow
    /\ \E s \in FwSizes \ {<<fwWidth, fwHeight>>} :
         fwWidth' = s[1] /\ fwHeight' = s[2]
    /\ FwApply(FwUpdate(targetPosRef, isActiveRef, fwParticles, lastEmitPos,
                        frameCount, rng))
    /\ clock' = clock + 1 /\ inputs' = inputs + 1
    /\ raf' = RequestFrame(CancelFrame(raf))
    /\ UNCHANGED <<colorVars, snowVars, frVars, overlay, fwMounted, targetPosRef, isActiveRef>>

\* Unmount: the cleanup of the loop effect cancels the pending callback.
FwUnmount ==
    /\ overlay = "fireworks" /\ fwMounted
    /\ fwMounted' = FALSE /\ fwPending' = FALSE
    /\ fwParticles' = <<>> /\ lastEmitPos' = NullPoint /\ frameCount' = 0
    /\ fwLog' = NoFwLog
    /\ clock' = MaxFwFrames
    /\ raf' = CancelFrame(raf)
    /\ UNCHANGED <<colorVars, snowVars, frVars, overlay, inputs, rng, fwWidth, fwHeight, targetPosRef, isActiveRef>>

FwNext ==
    \/ FwMount
    \/ FwFrame
    \/ FwSetTarget
    \/ FwSetActive
    \/ FwResize
    \/ FwUnmount

FwStart ==
    /\ fwMounted = FALSE /\ fwPending = FALSE
    /\ fwWidth = 64 /\ fwHeight = 48
    /\ targetPosRef \in (IF overlay = "fireworks"
                         THEN {NullPoint, [x |-> 1000, y |-> 1000]} ELSE {NullPoint})
    /\ isActiveRef \in (IF overlay = "fireworks" THEN BOOLEAN ELSE {FALSE})
    /\ fwParticles = <<>>
    /\ lastEmitPos = NullPoint
    /\ frameCount = 0
    /\ fwLog = NoFwLog

(***************************************************************************)
(* getColor of FireworksOverlay.  A colour is <<r, g, b>>; the normalized  *)
(* life progress = life / maxLife is the exact fraction a / b.             *)
(***************************************************************************)
PALETTES ==
    << [core |-> <<157, 0, 255>>, mid |-> <<123, 131, 255>>, outer |-> <<255, 215, 0>>],
       [core |-> <<255, 0, 100>>, mid |-> <<0, 255, 255>>,   outer |-> <<255, 255, 255>>],
       [core |-> <<0, 50, 255>>,  mid |-> <<0, 255, 100>>,   outer |-> <<255, 200, 100>>] >>

\* The palette object of a particle, which the model holds by its index.
PaletteOf(p) == PALETTES[p.palette + 1]

\* progress > 0.6
Fresh(a, b) == 5 * a > 3 * b

\* A faulty FreshEnds: the two colours are taken in the other order.
FreshEndsSwapped(pal) == [c1 |-> pal.core, c2 |-> pal.mid]

\* The colours blended while progress > 0.6: c1 = mid, c2 = core.
FreshEnds(pal) == [c1 |-> pal.mid, c2 |-> pal.core]

\* The colours blended otherwise: c1 = outer, c2 = mid.
AgedEnds(pal) == [c1 |-> pal.outer, c2 |-> pal.mid]

\* ratio = (progress - 0.6) / 0.4, as a fraction <<numerator, denominator>>.
FreshRatio(a, b) == <<5 * a - 3 * b, 2 * b>>

\* A faulty AgedRatio: the progress itself is taken as the ratio.
AgedRatioUnscaled(a, b) == <<a, b>>

\* ratio = progress / 0.6
AgedRatio(a, b) == <<5 * a, 3 * b>>

\* Math.max(0, Math.min(1, ratio))
ClampRatio(r) == IF r[1] < 0 THEN <<0, r[2]>> ELSE IF r[1] > r[2] THEN <<r[2], r[2]>> ELSE r

\* Math.round(c1 + (c2 - c1) * ratio), for a value that is not negative.
Channel(c1, c2, r) == (2 * (c1 * r[2] + (c2 - c1) * r[1]) + r[2]) \div (2 * r[2])

Blend(ends, r) == [k \in 1 .. 3 |-> Channel(ends.c1[k], ends.c2[k], r)]

\* getColor(p, progress) with progress = a / b.
GetColor(p, a, b) ==
    IF Fresh(a, b)
    THEN Blend(FreshEnds(PaletteOf(p)), ClampRatio(FreshRatio(a, b)))
    ELSE Blend(AgedEnds(PaletteOf(p)), ClampRatio(AgedRatio(a, b)))

NoParticle == [none |-> TRUE]

NoColor == <<>>

Layers == {"core", "mid", "outer"}

\* The shortest maxLife of each layer.
ColorMaxLives == {3000, 4000, 5000}

\* The particles getColor is called with: every palette and layer, and
\* every life the frame loop gives a particle between maxLife and 0.
ColorParticles ==
    UNION {{[palette |-> pi, layer |-> ly, maxLife |-> ml, life |-> ml - LifeStep * j] :
               pi \in 0 .. PaletteCount - 1, ly \in Layers, j \in 0 .. ml \div LifeStep} :
           ml \in ColorMaxLives}

\* const progress = p.life / p.maxLife; getColor(p, progress)
ColorCall ==
    /\ overlay = "palette"
    /\ \E p \in ColorParticles :
         /\ colorArg' = p
         /\ colorOut' = GetColor(p, p.life, p.maxLife)
    /\ UNCHANGED <<raf, overlay, clock, inputs, rng, snowVars, fwVars, frVars>>

ColorStart == colorArg = NoParticle /\ colorOut = NoColor

(***************************************************************************)
(* FrostOverlay (src/unnamed/part_002).  The mask canvas is observed at    *)
(* the pixels of a regular grid; a pixel is painted by a shape when its    *)
(* centre lies inside the shape (no anti-aliasing), and holds the alpha    *)
(* of the mask there, 0 .. 255.                                            *)
(***************************************************************************)
\* The cyclic table of the frost overlay: the end of a stroke draws the
\* spawn test and then x jitter, vy, size and life; a frame draws the
\* wiggle test of each drip and, when it passes, the new vx.
FrRandomTable == <<100, 500, 400, 500, 0, 900, 50, 800>>

FrSeeds == {0, 5}

FrRandom(n) == FrRandomTable[(n % Len(FrRandomTable)) + 1]

NoiseSide == 256
BrushSize == 12
DripChance == 400
WiggleChance == 100
DripAlpha == 204
OpaqueAlpha == 255

\* The pixels of a w x h mask canvas that are observed.
MaskPixels(w, h) ==
    {px \in (0 .. w - 1) \X (0 .. h - 1) :
        px[1] % MaskStride = 0 /\ px[2] % MaskStride = 0}

\* clearRect over the whole mask.
ClearMask(w, h) == [px \in MaskPixels(w, h) |-> 0]

NullMask == [px \in {} |-> 0]

\* A faulty Over: the fill replaces the alpha of the pixel ('copy').
OverReplacing(d, a) == a

\* Compositing 'source-over' of a black fill of alpha a over alpha d.
Over(d, a) == a + (d * (255 - a)) \div 255

\* arc(cx, cy, r) and fill: centre and radius in hundredths of a pixel.
InDisc(px, cx, cy, r) ==
    (100 * px[1] + 50 - cx) * (100 * px[1] + 50 - cx)
  + (100 * px[2] + 50 - cy) * (100 * px[2] + 50 - cy) <= r * r

FillDisc(m, cx, cy, r, a) ==
    [px \in DOMAIN m |-> IF InDisc(px, cx, cy, r) THEN Over(m[px], a) ELSE m[px]]

\* moveTo(a), lineTo(b), stroke with round caps and width 2 * r: the pixels
\* within r of the segment.  Coordinates in half pixels.
NearSegment(qx, qy, ax, ay, bx, by, r, dot, len2) ==
    IF dot <= 0 THEN (qx - ax) * (qx - ax) + (qy - ay) * (qy - ay) <= r * r
    ELSE IF dot >= len2 THEN (qx - bx) * (qx - bx) + (qy - by) * (qy - by) <= r * r
    ELSE ((qx - ax) * (qx - ax) + (qy - ay) * (qy - ay)) * len2 - dot * dot
            <= r * r * len2

InStroke(px, ax, ay, bx, by, r) ==
    NearSegment(2 * px[1] + 1, 2 * px[2] + 1, ax, ay, bx, by, r,
                (2 * px[1] + 1 - ax) * (bx - ax) + (2 * px[2] + 1 - ay) * (by - ay),
                (bx - ax) * (bx - ax) + (by - ay) * (by - ay))

StrokeLine(m, a, b, r) ==
    [px \in DOMAIN m |->
        IF InStroke(px, a.x \div 50, a.y \div 50, b.x \div 50, b.y \div 50, 2 * r)
        THEN Over(m[px], OpaqueAlpha) ELSE m[px]]

\* The drip pushed at the end of a stroke, its four calls starting at n.
NewDrip(last, n) ==
    [x |-> last.x + TruncDiv((FrRandom(n) - 500) * BrushSize, 10),
     y |-> last.y,
     vx |-> 0,
     vy |-> 50 + (FrRandom(n + 1) * 150) \div 1000,
     size |-> 100 + (FrRandom(n + 2) * 150) \div 1000,
     life |-> 2000 + (FrRandom(n + 3) * 3000) \div 1000]

\* A removal test that ignores the life of the drip.
DripGoneOffScreenOnly(d, ht) == d.y > 100 * ht

\* The removal test of the drip loop.
DripGone(d, ht) == d.life <= 0 \/ d.y > 100 * ht

\* One drip of the loop of render(): move, wiggle, age.
MoveDrip(d, wiggle, r) ==
    [d EXCEPT !.x = d.x + d.vx,
              !.y = d.y + d.vy,
              !.vx = IF wiggle THEN TruncDiv((r - 500) * 50, 1000) ELSE d.vx,
              !.life = d.life - 100]

\* The drip loop of render(), from the last index down.
RECURSIVE DripLoop(_, _, _)
DripOne(acc, i, ht, wiggle, d) ==
    DripLoop([drips   |-> IF DripGone(d, ht) THEN RemoveAt(acc.drips, i)
                          ELSE [acc.drips EXCEPT ![i] = d],
              mask    |-> FillDisc(acc.mask, d.x, d.y, d.size, DripAlpha),
              n       |-> acc.n + (IF wiggle THEN 2 ELSE 1),
              removed |-> acc.removed + (IF DripGone(d, ht) THEN 1 ELSE 0),
              expired |-> acc.expired + (IF d.life <= 0 THEN 1 ELSE 0),
              fallen  |-> acc.fallen + (IF d.y > 100 * ht THEN 1 ELSE 0),
              stamps  |-> acc.stamps \cup {[x |-> d.x, y |-> d.y, size |-> d.size]}],
             i - 1, ht)

DripTurn(acc, i, ht, wiggle) ==
    DripOne(acc, i, ht, wiggle, MoveDrip(acc.drips[i], wiggle, FrRandom(acc.n + 1)))

DripLoop(acc, i, ht) ==
    IF i < 1 THEN acc ELSE DripTurn(acc, i, ht, FrRandom(acc.n) < WiggleChance)

\* render(): the drip loop; the scene drawn afterwards shows the mask.
FrRenderDone(ds, out) ==
    [mask |-> out.mask, drips |-> out.drips, rng |-> out.n % Len(FrRandomTable),
     log |-> [ran |-> TRUE, before |-> Len(ds), removed |-> out.removed,
              expired |-> out.expired, fallen |-> out.fallen,
              stamps |-> out.stamps, after |-> Len(out.drips)]]

FrRender(m, ds, n, ht) ==
    FrRenderDone(ds, DripLoop([drips |-> ds, mask |-> m, n |-> n, removed |-> 0,
                               expired |-> 0, fallen |-> 0, stamps |-> {}],
                              Len(ds), ht))

\* A faulty FrInput: every point is stamped as a circle, none is joined to
\* the previous one.
FrInputDotsOnly(m, ds, last, n, pt) ==
    IF pt # NullPoint
    THEN [mask  |-> FillDisc(m, pt.x, pt.y, 100 * BrushSize, OpaqueAlpha),
          drips |-> ds, lastPoint |-> pt, rng |-> n]
    ELSE [mask |-> m, drips |-> ds, lastPoint |-> NullPoint, rng |-> n]

\* The input effect: what it leaves in the mask, the drips, lastPoint, rng.
FrInput(m, ds, last, n, pt) ==
    IF pt # NullPoint
    THEN [mask  |-> IF last # NullPoint THEN StrokeLine(m, last, pt, BrushSize)
                    ELSE FillDisc(m, pt.x, pt.y, 100 * BrushSize, OpaqueAlpha),
          drips |-> ds, lastPoint |-> pt, rng |-> n]
    ELSE IF last # NullPoint
    THEN [mask  |-> m,
          drips |-> IF FrRandom(n) < DripChance THEN Append(ds, NewDrip(last, n + 1))
                    ELSE ds,
          lastPoint |-> NullPoint,
          rng |-> (IF FrRandom(n) < DripChance THEN n + 5 ELSE n + 1) % Len(FrRandomTable)]
    ELSE [mask |-> m, drips |-> ds, lastPoint |-> NullPoint, rng |-> n]

NoFrLog == [ran |-> FALSE]

FrSizes == {<<32, 28>>, <<24, 28>>}

FrPoints == {[x |-> 1600, y |-> 400], [x |-> 800, y |-> 2000]}

FrApply(u) ==
    /\ mask' = u.mask
    /\ drips' = u.drips
    /\ rng' = u.rng
    /\ frLog' = u.log
    /\ frPending' = TRUE

\* Mount, continued: the input effect runs on the mask that the mask effect
\* cleared and the first render() left.
FrMounted(u, inp) ==
    /\ mask' = inp.mask
    /\ drips' = inp.drips
    /\ lastPoint' = inp.lastPoint
    /\ rng' = inp.rng
    /\ frLog' = u.log
    /\ frPending' = TRUE

FrFirstRender(u) == FrMounted(u, FrInput(u.mask, u.drips, NullPoint, u.rng, drawingPoint))

\* Mount: the noise effect (one call per texel), the mask effect, the loop
\* effect (render() at once), the input effect.
FrMount ==
    /\ overlay = "frost" /\ ~frMounted
    /\ clock < MaxFrFrames
    /\ frMounted' = TRUE
    /\ FrFirstRender(FrRender(ClearMask(frWidth, frHeight), <<>>,
                              rng + NoiseSide * NoiseSide, frHeight))
    /\ clock' = clock + 1
    /\ raf' = RequestFrame(raf)
    /\ UNCHANGED <<colorVars, snowVars, fwVars, overlay, inputs, frWidth, frHeight, resetKey, drawingPoint>>

\* The pending frame callback runs render().
FrFrame ==
    /\ overlay = "frost" /\ frMounted /\ frPending
    /\ clock < MaxFrFrames
    /\ FrApply(FrRender(mask, drips, rng, frHeight))
    /\ clock' = clock + 1
    /\ raf' = RequestFrame(RunFrame(raf))
    /\ UNCHANGED <<colorVars, snowVars, fwVars, overlay, inputs, frMounted, frWidth, frHeight, resetKey,
                   drawingPoint, lastPoint>>

FrTakeInput(inp) ==
    /\ mask' = inp.mask
    /\ drips' = inp.drips
    /\ lastPoint' = inp.lastPoint
    /\ rng' = inp.rng

\* drawingPoint changes: the input effect runs.
FrSetPoint ==
    /\ overlay = "frost" /\ frMounted
    /\ inputs < MaxFrInputs /\ clock < FrInputWindow
    /\ \E pt \in (FrPoints \cup {NullPoint}) \ {drawingPoint} :
         /\ drawingPoint' = pt
         /\ FrTakeInput(FrInput(mask, drips, lastPoint, rng, pt))
    /\ inputs' = inputs + 1
    /\ UNCHANGED <<raf, colorVars, snowVars, fwVars, overlay, clock, frMounted, frPending, frWidth, frHeight,
                   resetKey, frLog>>

\* A faulty FrReset: the stroke-continuity reference survives the reset.
FrResetKeepsLastPoint ==
    /\ overlay = "frost" /\ frMounted
    /\ inputs < MaxFrInputs /\ clock < FrInputWindow
    /\ resetKey' = resetKey + 1
    /\ mask' = ClearMask(frWidth, frHeight)
    /\ drips' = <<>>
    /\ inputs' = inputs + 1
    /\ UNCHANGED <<raf, colorVars, snowVars, fwVars, overlay, clock, rng, frMounted, frPending, frWidth, frHeight,
                   drawingPoint, lastPoint, frLog>>

\* resetKey changes: the mask effect clears the mask, the drips, lastPoint.
FrReset ==
    /\ overlay = "frost" /\ frMounted
    /\ inputs < MaxFrInputs /\ clock < FrInputWindow
    /\ resetKey' = resetKey + 1
    /\ mask' = ClearMask(frWidth, frHeight)
    /\ drips' = <<>>
    /\ lastPoint' = NullPoint
    /\ inputs' = inputs + 1
    /\ UNCHANGED <<raf, colorVars, snowVars, fwVars, overlay, clock, rng, frMounted, frPending, frWidth, frHeight,
                   drawingPoint, frLog>>

\* width or height changes: the mask effect, then the loop effect restarts
\* (the pending callback is cancelled, render() runs at once).
FrResize ==
    /\ overlay = "frost" /\ frMounted
    /\ inputs < MaxFrInputs /\ clock < FrInputWindow
    /\ \E s \in FrSizes \ {<<frWidth, frHeight>>} :
         /\ frWidth' = s[1] /\ frHeight' = s[2]
         /\ FrApply(FrRender(ClearMask(s[1], s[2]), <<>>, rng, s[2]))
    /\ lastPoint' = NullPoint
    /\ clock' = clock + 1 /\ inputs' = inputs + 1
    /\ raf' = RequestFrame(CancelFrame(raf))
    /\ UNCHANGED <<colorVars, snowVars, fwVars, overlay, frMounted, resetKey, drawingPoint>>

\* Unmount: the cleanup of the loop effect cancels the pending callback.
FrUnmount ==
    /\ overlay = "frost" /\ frMounted
    /\ frMounted' = FALSE /\ frPending' = FALSE
    /\ mask' = NullMask /\ drips' = <<>> /\ lastPoint' = NullPoint
    /\ frLog' = NoFrLog
    /\ clock' = MaxFrFrames
    /\ raf' = CancelFrame(raf)
    /\ UNCHANGED <<colorVars, snowVars, fwVars, overlay, inputs, rng, frWidth, frHeight, resetKey, drawingPoint>>

FrNext ==
    \/ FrMount
    \/ FrFrame
    \/ FrSetPoint
    \/ FrReset
    \/ FrResize
    \/ FrUnmount

FrStart ==
    /\ frMounted = FALSE /\ frPending = FALSE
    /\ frWidth = 32 /\ frHeight = 28
    /\ resetKey = 0
    /\ drawingPoint \in (IF overlay = "frost" THEN FrPoints \cup {NullPoint}
                         ELSE {NullPoint})
    /\ mask = NullMask
    /\ drips = <<>>
    /\ lastPoint = NullPoint
    /\ frLog = NoFrLog

Init ==
    /\ overlay \in {"snow", "fireworks", "frost"}
    /\ clock = 0 /\ inputs = 0 /\ raf = NoFrames
    /\ rng \in (CASE overlay = "snow"      -> SnowSeeds
                 [] overlay = "fireworks" -> FwSeeds
                 [] overlay = "frost"     -> FrSeeds)
    /\ SnowStart
    /\ FwStart
    /\ FrStart
    /\ ColorStart

Next ==
    \/ SnowNext
    \/ FwNext
    \/ FrNext

Spec == Init /\ [][Next]_vars

SnowInit == Init /\ overlay = "snow"

SnowSpec == SnowInit /\ [][SnowNext]_vars

FwInit == Init /\ overlay = "fireworks"

FwSpec == FwInit /\ [][FwNext]_vars

FrInit == Init /\ overlay = "frost"

\* Several gestures in a row: only drawingPoint changes, so that a second
\* stroke can end while the drip of the first is still running.
DripInputs == 4
DripWindow == 4

\* The frame steps of the long run of the fireworks overlay, and the frame
\* steps in which its isActive prop can change.
LongFrames == 88
LongWindow == 3

FrDripPoint ==
    /\ overlay = "frost" /\ frMounted
    /\ inputs < DripInputs /\ clock < DripWindow
    /\ \E pt \in (FrPoints \cup {NullPoint}) \ {drawingPoint} :
         /\ drawingPoint' = pt
         /\ FrTakeInput(FrInput(mask, drips, lastPoint, rng, pt))
    /\ inputs' = inputs + 1
    /\ UNCHANGED <<raf, colorVars, snowVars, fwVars, overlay, clock, frMounted, frPending, frWidth, frHeight,
                   resetKey, frLog>>

FrDripNext == FrMount \/ FrFrame \/ FrDripPoint

FrDripSpec == FrInit /\ [][FrDripNext]_vars

(***************************************************************************)
(* The frost overlay with its frames scheduled fairly:                     *)
(* requestAnimationFrame runs every pending callback, and render() always  *)
(* leaves one pending.  The exploration is not cut off here: once the      *)
(* window of the inputs is over, clock only alternates, so that the frame  *)
(* steps go on for as long as a drip is left.                              *)
(***************************************************************************)
FrDrainTickOf(c) == IF c <= DripWindow THEN c + 1 ELSE DripWindow

FrDrainMount ==
    /\ overlay = "frost" /\ ~frMounted
    /\ frMounted' = TRUE
    /\ FrFirstRender(FrRender(ClearMask(frWidth, frHeight), <<>>,
                              rng + NoiseSide * NoiseSide, frHeight))
    /\ clock' = FrDrainTickOf(clock)
    /\ raf' = RequestFrame(raf)
    /\ UNCHANGED <<colorVars, snowVars, fwVars, overlay, inputs, frWidth, frHeight, resetKey, drawingPoint>>

FrDrainFrame ==
    /\ overlay = "frost" /\ frMounted /\ frPending
    /\ FrApply(FrRender(mask, drips, rng, frHeight))
    /\ clock' = FrDrainTickOf(clock)
    /\ raf' = RequestFrame(RunFrame(raf))
    /\ UNCHANGED <<colorVars, snowVars, fwVars, overlay, inputs, frMounted, frWidth, frHeight, resetKey,
                   drawingPoint, lastPoint>>

FrDrainNext ==
    \/ FrDrainMount
    \/ FrDrainFrame
    \/ FrDripPoint
    \/ FrReset

\* The mount of the component, as a step of frMounted alone.
FrDrainMounting == ~frMounted /\ frMounted' = TRUE

\* The run of a pending frame callback, as a step of clock alone.
FrDrainTick == frMounted /\ frPending /\ clock' = FrDrainTickOf(clock)

FrDrainSpec ==
    /\ FrInit
    /\ [][FrDrainNext]_vars
    /\ WF_frMounted(FrDrainMounting)
    /\ WF_clock(FrDrainTick)

(***************************************************************************)
(* The fireworks overlay given targets with a coordinate that is not       *)
(* finite.                                                                 *)
(***************************************************************************)
FwOddTargets == {[x |-> NonFinite, y |-> 1000], [x |-> 4200, y |-> NonFinite]}

FwGlowSetTarget ==
    /\ overlay = "fireworks" /\ fwMounted
    /\ inputs < MaxFwInputs /\ clock < FwInputWindow
    /\ \E t \in (FwOddTargets \cup {[x |-> 4200, y |-> 2600], NullPoint}) \ {targetPosRef} :
         targetPosRef' = t
    /\ inputs' = inputs + 1
    /\ UNCHANGED <<raf, colorVars, snowVars, frVars, overlay, clock, rng, fwMounted, fwPending, fwWidth, fwHeight,
                   isActiveRef, fwParticles, lastEmitPos, frameCount>>
    /\ fwLog' = PropsNoted(fwLog, targetPosRef', isActiveRef')

FwGlowNext ==
    \/ FwMount
    \/ FwFrame
    \/ FwGlowSetTarget
    \/ FwUnmount

FwGlowSpec == FwInit /\ [][FwGlowNext]_vars

(***************************************************************************)
(* The fireworks overlay run for more frames than a particle lives, so     *)
(* that the pool reaches the size at which groups leave as fast as they    *)
(* are pushed.                                                             *)
(***************************************************************************)
FwLongFrame ==
    /\ overlay = "fireworks" /\ fwMounted /\ fwPending
    /\ clock < LongFrames
    /\ FwApply(FwUpdate(targetPosRef, isActiveRef, fwParticles, lastEmitPos,
                        frameCount, rng))
    /\ clock' = clock + 1
    /\ raf' = RequestFrame(RunFrame(raf))
    /\ UNCHANGED <<colorVars, snowVars, frVars, overlay, inputs, fwMounted, fwWidth, fwHeight,
                   targetPosRef, isActiveRef>>

FwLongSetActive ==
    /\ overlay = "fireworks" /\ fwMounted
    /\ inputs < MaxFwInputs /\ clock < LongWindow
    /\ isActiveRef' = ~isActiveRef
    /\ inputs' = inputs + 1
    /\ UNCHANGED <<raf, colorVars, snowVars, frVars, overlay, clock, rng, fwMounted, fwPending, fwWidth, fwHeight,
                   targetPosRef, fwParticles, lastEmitPos, frameCount>>
    /\ fwLog' = PropsNoted(fwLog, targetPosRef', isActiveRef')

FwLongNext ==
    \/ FwMount
    \/ FwLongFrame
    \/ FwLongSetActive
    \/ FwResize

FwLongSpec == FwInit /\ [][FwLongNext]_vars

\* The two pools that are walked from the last index down with removals.
PoolInit == Init /\ overlay \in {"fireworks", "frost"}

PoolNext == FwNext \/ FrDripNext

PoolSpec == PoolInit /\ [][PoolNext]_vars

FrSpec == FrInit /\ [][FrNext]_vars

\* getColor alone: no overlay is mounted, the function is called on each
\* particle of ColorParticles.
ColorInit ==
    /\ overlay = "palette"
    /\ clock = 0 /\ inputs = 0 /\ raf = NoFrames /\ rng = 0
    /\ SnowStart /\ FwStart /\ FrStart /\ ColorStart

ColorSpec == ColorInit /\ [][ColorCall]_vars

(***************************************************************************)
(* The fireworks overlay mounted active with a target, deactivated at most *)
(* once (isActive turns false, or the target becomes absent) and left so,  *)
(* its frames scheduled fairly.  The exploration is not cut off here:      *)
(* clock counts the frame steps up to the end of the window in which the   *)
(* deactivation may come and then alternates, so that the steps that       *)
(* change clock are exactly the frame steps; frameCount is kept modulo     *)
(* the emission period, which is all that update() reads of it.            *)
(***************************************************************************)
FwOffInit ==
    /\ FwInit
    /\ isActiveRef /\ targetPosRef = [x |-> 1000, y |-> 1000]
    /\ rng = 0

FwOffTickOf(c) == IF c <= FwInputWindow THEN c + 1 ELSE FwInputWindow

FwOffApply(u) ==
    /\ fwParticles' = u.particles
    /\ lastEmitPos' = u.lastEmitPos
    /\ frameCount' = u.frameCount % EmitPeriod
    /\ rng' = u.rng
    /\ fwLog' = [lastGroup |-> LastGroup(fwLog, u.log), gap |-> FALSE,
                resumed |-> fwLog.gap] @@ [u.log EXCEPT !.frame = @ % EmitPeriod]
    /\ fwPending' = TRUE
    /\ clock' = FwOffTickOf(clock)

FwOffMount ==
    /\ overlay = "fireworks" /\ ~fwMounted
    /\ fwMounted' = TRUE
    /\ FwOffApply(FwUpdate(targetPosRef, isActiveRef, fwParticles, lastEmitPos,
                           frameCount, rng))
    /\ raf' = RequestFrame(raf)
    /\ UNCHANGED <<colorVars, snowVars, frVars, overlay, inputs, fwWidth, fwHeight, targetPosRef, isActiveRef>>

FwOffFrame ==
    /\ overlay = "fireworks" /\ fwMounted /\ fwPending
    /\ FwOffApply(FwUpdate(targetPosRef, isActiveRef, fwParticles, lastEmitPos,
                           frameCount, rng))
    /\ raf' = RequestFrame(RunFrame(raf))
    /\ UNCHANGED <<colorVars, snowVars, frVars, overlay, inputs, fwMounted, fwWidth, fwHeight, targetPosRef,
                   isActiveRef>>

\* isActive turns false or targetPosition becomes null: the ref-sync effect.
FwOffDeactivate ==
    /\ overlay = "fireworks" /\ fwMounted
    /\ Generates(targetPosRef, isActiveRef)
    /\ clock < FwInputWindow
    /\ \/ isActiveRef' = FALSE /\ UNCHANGED targetPosRef
       \/ targetPosRef' = NullPoint /\ UNCHANGED isActiveRef
    /\ UNCHANGED <<raf, colorVars, snowVars, frVars, overlay, clock, inputs, rng, fwMounted, fwPending, fwWidth,
                   fwHeight, fwParticles, lastEmitPos, frameCount>>
    /\ fwLog' = PropsNoted(fwLog, targetPosRef', isActiveRef')

FwOffNext ==
    \/ FwOffMount
    \/ FwOffFrame
    \/ FwOffDeactivate

\* The mount of the component, as a step of fwMounted alone.
FwOffMounting == ~fwMounted /\ fwMounted' = TRUE

\* The run of a pending frame callback, as a step of clock alone.
FwOffTick == fwMounted /\ fwPending /\ clock' = FwOffTickOf(clock)

FwOffSpec ==
    /\ FwOffInit
    /\ [][FwOffNext]_vars
    /\ WF_fwMounted(FwOffMounting)
    /\ WF_clock(FwOffTick)

(***************************************************************************)
(* The snow overlay mounted inactive and left inactive, its frames         *)
(* scheduled fairly: requestAnimationFrame runs every pending callback,    *)
(* and update() always leaves one pending.  The exploration is not cut     *)
(* off here: clock holds the parity of the frame steps, so that the steps  *)
(* that change clock are exactly the frame steps.                          *)
(***************************************************************************)
SnowOffSeeds == {0, 18}

SnowOffInit ==
    /\ SnowInit
    /\ ~snowActive
    /\ snowWidth = 6 /\ snowHeight = 12
    /\ rng \in SnowOffSeeds

SnowOffMount == SnowMountStep /\ UNCHANGED clock

SnowOffFrame == SnowFrameStep /\ clock' = (clock + 1) % 2

SnowOffNext ==
    \/ SnowOffMount
    \/ SnowOffFrame

\* The mount of the component, as a step of snowMounted alone.
SnowOffMounting == ~snowMounted /\ snowMounted' = TRUE

\* The run of a pending frame callback, as a step of clock alone.
SnowOffTick == snowMounted /\ snowPending /\ clock' = (clock + 1) % 2

SnowOffSpec ==
    /\ SnowOffInit
    /\ [][SnowOffNext]_vars
    /\ WF_snowMounted(SnowOffMounting)
    /\ WF_clock(SnowOffTick)

(***************************************************************************)
(* The loop effect of the snow overlay taken on its own: heightMapRef      *)
(* holds the null it is constructed with, because the height-map effect,   *)
(* which in the component always runs before the loop effect, has not run. *)
(* update() then takes the else side of each of its hMap guards.           *)
(***************************************************************************)
SnowLoopOnlyMount ==
    /\ overlay = "snow" /\ ~snowMounted
    /\ clock < MaxSnowFrames
    /\ snowMounted' = TRUE
    /\ SnowApply(SnowLoopStart(snowActive, snowWidth, snowHeight, motionScore,
                               heightMap, snowParticles, rng))
    /\ clock' = clock + 1
    /\ raf' = RequestFrame(raf)
    /\ UNCHANGED <<colorVars, fwVars, frVars, overlay, inputs, snowActive, snowWidth, snowHeight, motionScore>>

SnowNullNext ==
    \/ SnowLoopOnlyMount
    \/ SnowFrame
    \/ SnowSetActive
    \/ SnowSetMotion

SnowNullSpec == SnowInit /\ [][SnowNullNext]_vars

(***************************************************************************)
(* The deposit scenario of the snow field: a field of width 100 with no    *)
(* flakes (the overlay inactive, the pool empty); each step is one deposit *)
(* event at column 50 followed by one run of update(), which with an empty *)
(* pool returns after the shake / clear step.  The overlay itself has no   *)
(* deposit event: its field is written only by the kernel of a landing     *)
(* flake.                                                                  *)
(***************************************************************************)
PileHeights == {20, 100}

\* A deposit event: the given height is added to one cell of the field.
DepositEvent(h, col, amount) == [h EXCEPT ![col] = @ + amount]

PileInit ==
    /\ overlay = "snow"
    /\ clock = 0 /\ inputs = 0 /\ raf = RequestFrame(NoFrames) /\ rng = 0
    /\ FwStart /\ FrStart /\ ColorStart
    /\ snowMounted = TRUE /\ snowPending = TRUE
    /\ snowActive = FALSE /\ motionScore = 0
    /\ snowWidth = PileWidth /\ snowHeight \in PileHeights
    /\ heightMap = ZeroField(PileWidth)
    /\ snowParticles = <<>>
    /\ snowLog = NoSnowLog

PileStep ==
    /\ overlay = "snow" /\ snowMounted /\ snowPending
    /\ clock < MaxDeposits
    /\ SnowApply(SnowUpdate(snowActive, snowWidth, snowHeight, motionScore,
                            DepositEvent(heightMap, PileColumn, PileDeposit),
                            snowParticles, rng))
    /\ clock' = clock + 1
    /\ raf' = RequestFrame(RunFrame(raf))
    /\ UNCHANGED <<colorVars, fwVars, frVars, overlay, inputs, snowMounted, snowActive, snowWidth,
                   snowHeight, motionScore>>

\* A deposit step, as a step of clock alone.
PileTick == clock < MaxDeposits /\ clock' = clock + 1

PileSpec == PileInit /\ [][PileStep]_vars /\ WF_clock(PileTick)

(***************************************************************************)
(* The snow overlay on a low surface.  The pool of the source (300 flakes  *)
(* at the start of the loop) is modelled by 5 flakes, a factor of 60; a    *)
(* surface 480 high scaled alike is 8 high, so that the flakes of the pool *)
(* together can deposit more than the surface height, as in the source.    *)
(***************************************************************************)
LowSurface == <<5, 8>>

SnowLowInit ==
    /\ overlay = "snow"
    /\ clock = 0 /\ inputs = 0 /\ raf = NoFrames
    /\ rng \in SnowSeeds
    /\ FwStart /\ FrStart /\ ColorStart
    /\ snowMounted = FALSE /\ snowPending = FALSE
    /\ snowActive \in BOOLEAN
    /\ snowWidth = LowSurface[1] /\ snowHeight = LowSurface[2]
    /\ motionScore \in MotionScores
    /\ heightMap = NullField
    /\ snowParticles = <<>>
    /\ snowLog = NoSnowLog

SnowLowSpec == SnowLowInit /\ [][SnowNext]_vars

\* A surface wider than the deposit kernel, so that a landing flake leaves
\* cells outside its kernel.
WideSurface == <<24, 20>>

SnowWideInit ==
    /\ overlay = "snow"
    /\ clock = 0 /\ inputs = 0 /\ raf = NoFrames
    /\ rng \in SnowSeeds
    /\ FwStart /\ FrStart /\ ColorStart
    /\ snowMounted = FALSE /\ snowPending = FALSE
    /\ snowActive \in BOOLEAN
    /\ snowWidth = WideSurface[1] /\ snowHeight = WideSurface[2]
    /\ motionScore \in MotionScores
    /\ heightMap = NullField
    /\ snowParticles = <<>>
    /\ snowLog = NoSnowLog

SnowWideSpec == SnowWideInit /\ [][SnowNext]_vars

(***************************************************************************)
(* Properties of the fireworks and frost pools.                            *)
(***************************************************************************)
\* C1: after every frame step of the fireworks overlay every particle in
\* the pool has 0 < life <= maxLife, and after every frame step of the frost
\* overlay every drip has life > 0; a particle or drip whose life ran out
\* was removed in the step that ran it out, and the step removed nothing
\* that it drew.
C1_LiveAfterFrame ==
    /\ \A i \in 1 .. Len(fwParticles) :
          0 < fwParticles[i].life /\ fwParticles[i].life <= fwParticles[i].maxLife
    /\ \A i \in 1 .. Len(drips) : drips[i].life > 0
    /\ fwLog.ran =>
         /\ fwLog.after + fwLog.removed = fwLog.before
         /\ fwLog.after = fwLog.drawn /\ Len(fwParticles) = fwLog.after
    /\ frLog.ran => frLog.after + frLog.removed = frLog.before

\* C1 witness: a fireworks frame step removed a particle whose life ran out
\* and kept the others.
C1_Witness ==
    /\ fwMounted /\ fwLog.ran
    /\ fwLog.removed > 0
    /\ Len(fwParticles) > 0

\* The frost case of C1: a frame step removed a drip whose life ran out
\* while the drip was still on the canvas.
C1_FrostWitness ==
    /\ frMounted /\ frLog.ran
    /\ frLog.expired > 0 /\ frLog.fallen = 0

\* The fireworks overlay is mounted and its generation step is off: the
\* effect is inactive or the target is absent.
FwOff == fwMounted /\ (~isActiveRef \/ targetPosRef = NullPoint)

\* C11: once the fireworks effect is deactivated or its target is absent,
\* and stays so, a frame step spawns nothing and steps every particle of
\* the pool exactly once (the particles that stay are the former ones, each
\* advanced by one step, the others were removed), and under fair
\* scheduling of the frames the pool eventually is empty.
C11_OffPoolDrains ==
    /\ [][(FwOff /\ fwLog'.ran /\ clock' # clock) =>
            /\ ~fwLog'.emitted /\ fwLog'.spawned = <<>>
            /\ fwLog'.start = Len(fwParticles)
            /\ Len(fwParticles') + fwLog'.removed = Len(fwParticles)
            /\ \A k \in 1 .. Len(fwParticles') :
                 fwParticles'[k] = Advance(fwParticles[fwLog'.kept[k]])]_vars
    /\ FwOff ~> (Len(fwParticles) = 0)

\* C11 witness: a frame step of the deactivated overlay removed the last
\* particles of a pool that the active overlay had filled.
C11_Witness ==
    /\ FwOff /\ fwLog.ran
    /\ (~fwLog.active \/ fwLog.target = NullPoint)
    /\ fwLog.start > 0 /\ fwLog.removed > 0
    /\ Len(fwParticles) = 0

(***************************************************************************)
(* Properties of the frost mask and its strokes.                           *)
(***************************************************************************)
\* The centre of pixel px lies within r pixels of the point pt.
Within(px, pt, r) ==
    (100 * px[1] + 50 - pt.x) * (100 * px[1] + 50 - pt.x)
  + (100 * px[2] + 50 - pt.y) * (100 * px[2] + 50 - pt.y) <= 10000 * r * r

\* The step is a resize or an explicit reset of the mounted frost overlay.
FrCleared ==
    frMounted /\ frMounted'
    /\ (resetKey' # resetKey \/ frWidth' # frWidth \/ frHeight' # frHeight)

\* The step supplies a first drawing point: a point while lastPoint is
\* absent.
FrFirstPoint ==
    frMounted /\ frMounted'
    /\ drawingPoint' # drawingPoint /\ drawingPoint' # NullPoint
    /\ lastPoint = NullPoint

\* C13: a resize or an explicit reset of the frost overlay leaves the mask
\* fully fogged over the whole canvas (alpha 0 at every pixel), no drip and
\* no stroke-continuity reference; and a drawing point supplied while that
\* reference is absent paints exactly the pixels within the brush radius of
\* the point, to full erasure, and nothing else (a circle, no line).
C13_ResetFogsAndBreaksStroke ==
    [][/\ FrCleared =>
            /\ DOMAIN mask' = MaskPixels(frWidth', frHeight')
            /\ \A px \in DOMAIN mask' : mask'[px] = 0
            /\ drips' = <<>>
            /\ lastPoint' = NullPoint
       /\ FrFirstPoint =>
            /\ DOMAIN mask' = DOMAIN mask
            /\ \A px \in DOMAIN mask :
                 mask'[px] = IF Within(px, drawingPoint', 12) THEN 255 ELSE mask[px]
            /\ lastPoint' = drawingPoint']_vars

\* C13 witness: after a reset or resize a point was stamped as a circle:
\* pixels within the brush radius of it are erased, the others, where a
\* line from an earlier point would have passed, are fogged.
C13_Witness ==
    /\ frMounted
    /\ (resetKey > 0 \/ frWidth # 32)
    /\ lastPoint = [x |-> 800, y |-> 2000]
    /\ drips = <<>>
    /\ mask[<<8, 20>>] = 255
    /\ mask[<<16, 4>>] = 0

\* C14: between two resets or resizes the frost mask only accumulates
\* erasure: no step of the mounted overlay other than a reset or a resize
\* (a stroke input, a gesture end, a frame step with its drip stamps)
\* lowers the alpha of any mask pixel, so a fully erased pixel stays fully
\* erased.
C14_ErasureOnlyGrows ==
    [][(frMounted /\ frMounted' /\ ~FrCleared) =>
         /\ DOMAIN mask' = DOMAIN mask
         /\ \A px \in DOMAIN mask :
              /\ mask'[px] >= mask[px]
              /\ mask[px] = 255 => mask'[px] = 255]_vars

\* C14 witness: a frame step stamped drips on the mask; some pixel is
\* fully erased by a stroke and some pixel is partly erased by a drip.
C14_Witness ==
    /\ frMounted /\ frLog.ran
    /\ frLog.stamps # {}
    /\ \E px \in DOMAIN mask : mask[px] = 255
    /\ \E px \in DOMAIN mask : mask[px] > 0 /\ mask[px] < 255

\* The centre of pixel px lies within r pixels of the segment from a to b.
NearLine(px, a, b, r) ==
    InStroke(px, a.x \div 50, a.y \div 50, b.x \div 50, b.y \div 50, 2 * r)

\* The step supplies a further point of a gesture.
FrNextPoint ==
    frMounted /\ frMounted'
    /\ drawingPoint' # drawingPoint /\ drawingPoint' # NullPoint
    /\ lastPoint # NullPoint

\* The step ends a gesture: the drawing point becomes absent.
FrGestureEnd ==
    frMounted /\ frMounted'
    /\ drawingPoint # NullPoint /\ drawingPoint' = NullPoint

\* C15: a gesture that starts from an absent stroke reference stamps one
\* circle, at its first point; every further point strokes one segment,
\* from the point supplied before it to itself; the end of the gesture
\* paints nothing, clears the reference and spawns no drip or one drip at
\* the last point (same y, x within half the brush size of it), and an end
\* that finds no reference spawns nothing.
C15_GestureStrokes ==
    [][/\ (~frMounted /\ frMounted' /\ drawingPoint # NullPoint) =>
            /\ \A px \in DOMAIN mask' :
                 mask'[px] = IF Within(px, drawingPoint, 12) THEN 255 ELSE 0
            /\ lastPoint' = drawingPoint /\ drips' = <<>>
       /\ FrFirstPoint =>
            /\ \A px \in DOMAIN mask :
                 mask'[px] = IF Within(px, drawingPoint', 12) THEN 255 ELSE mask[px]
            /\ lastPoint' = drawingPoint' /\ drips' = drips
       /\ FrNextPoint =>
            /\ lastPoint = drawingPoint
            /\ \A px \in DOMAIN mask :
                 mask'[px] = IF NearLine(px, drawingPoint, drawingPoint', 12)
                             THEN 255 ELSE mask[px]
            /\ lastPoint' = drawingPoint' /\ drips' = drips
       /\ FrGestureEnd =>
            /\ mask' = mask /\ lastPoint' = NullPoint
            /\ \/ drips' = drips
               \/ /\ lastPoint # NullPoint
                  /\ Len(drips') = Len(drips) + 1
                  /\ SubSeq(drips', 1, Len(drips)) = drips
                  /\ drips'[Len(drips')].y = drawingPoint.y
                  /\ Abs(drips'[Len(drips')].x - drawingPoint.x) <= 600]_vars

\* C15 witness: the gesture of two points has ended; the pixel that only
\* the segment between them covers is erased, and its one drip sits at the
\* height of the last point.
C15_Witness ==
    /\ frMounted
    /\ drawingPoint = NullPoint /\ lastPoint = NullPoint
    /\ inputs = 2 /\ resetKey = 0 /\ frWidth = 32
    /\ mask[<<20, 16>>] = 255
    /\ ~Within(<<20, 16>>, [x |-> 1600, y |-> 400], 12)
    /\ ~Within(<<20, 16>>, [x |-> 800, y |-> 2000], 12)
    /\ Len(drips) = 1 /\ drips[1].y = 2000 /\ drips[1].life = 2000

(***************************************************************************)
(* Properties of the snow overlay.                                         *)
(***************************************************************************)
AllZero(h) == \A i \in Cells(h) : h[i] = 0

\* The reset trigger of the last run of update(), read off its inputs: the
\* motion score above 0.3, or a cell at a multiple of 20 at or above
\* height - 10 after decay and relaxation.
OverflowFired ==
    \E i \in Cells(snowLog.relaxed) :
        i % 20 = 0 /\ snowLog.relaxed[i] >= (snowHeight - 10) * 100

ResetTriggered == snowLog.ran /\ (snowLog.motion > 30 \/ OverflowFired)

\* C2: every cell of the height field is >= 0 in every reachable state, and
\* so is every cell of the field after the decay and after the relaxation
\* phase of the last frame step.
C2_FieldNonNegative ==
    /\ \A i \in Cells(heightMap) : heightMap[i] >= 0
    /\ snowLog.ran =>
         /\ \A i \in Cells(snowLog.decayed) : snowLog.decayed[i] >= 0
         /\ \A i \in Cells(snowLog.relaxed) : snowLog.relaxed[i] >= 0

\* C2 witness: a frame step whose decay and relaxation both changed the
\* field, ending with snow on the ground.
C2_Witness ==
    /\ snowLog.ran
    /\ snowLog.decayed # snowLog.start
    /\ snowLog.relaxed # snowLog.decayed
    /\ \E i \in Cells(heightMap) : heightMap[i] > 0

\* What the flakes that landed in the last run of update() deposited in
\* cell i: the sum of their kernels.
RECURSIVE DepositedAt(_, _)
DepositedAt(hits, i) ==
    IF hits = {} THEN 0
    ELSE LET hit == CHOOSE x \in hits : TRUE
         IN  (IF Abs(i - hit.col) <= DepositRadius
              THEN (hit.size * Falloff(Abs(i - hit.col))) \div 2000 ELSE 0)
             + DepositedAt(hits \ {hit}, i)

\* C12: a step that changes width or height replaces the height field by a
\* fresh one: the update() that the restarted loop runs starts from an
\* all-zero field whose length is the new width, and the field that the
\* step leaves has that length and holds in every cell exactly what the
\* flakes landing in that update() deposited, nothing of the former field.
C12_ResizeGivesFreshField ==
    [][(snowMounted /\ (snowWidth' # snowWidth \/ snowHeight' # snowHeight)) =>
         /\ DOMAIN snowLog'.start = 0 .. snowWidth' - 1
         /\ \A i \in 0 .. snowWidth' - 1 : snowLog'.start[i] = 0
         /\ snowLog'.held = heightMap
         /\ DOMAIN heightMap' = 0 .. snowWidth' - 1
         /\ \A i \in Cells(heightMap') :
              heightMap'[i] = DepositedAt(snowLog'.hits, i)]_vars

\* C12 witness: a resize replaced a field that held snow by a zero field of
\* another length, and no flake landed in the update() that followed.
C12_Witness ==
    /\ snowMounted /\ snowLog.ran
    /\ snowLog.held # NullField
    /\ DOMAIN snowLog.held # DOMAIN snowLog.start
    /\ \E i \in Cells(snowLog.held) : snowLog.held[i] > 0
    /\ DOMAIN snowLog.start = 0 .. snowWidth - 1 /\ AllZero(snowLog.start)
    /\ AllZero(heightMap)

\* C12 as stated, read at the end of the step that changes width or height:
\* every cell of the field is 0.
C12_ZeroAfterResize ==
    [][(snowMounted /\ (snowWidth' # snowWidth \/ snowHeight' # snowHeight)) =>
         /\ DOMAIN heightMap' = 0 .. snowWidth' - 1
         /\ AllZero(heightMap')]_vars

\* C3 as stated: after a frame step in which no flake deposited, no cell of
\* the field is above its value at the start of that step.
C3_NoCellIncreases ==
    (snowLog.ran /\ snowLog.deposits = 0) =>
        \A i \in Cells(heightMap) : heightMap[i] <= snowLog.start[i]

\* C3 amended: after a frame step in which no flake deposited, neither the
\* total of the field nor its highest cell is above its value at the start
\* of that step (single cells may rise by what a taller neighbour settles
\* onto them).
C3_TotalAndPeakNeverIncrease ==
    (snowLog.ran /\ snowLog.deposits = 0) =>
        /\ FieldSum(heightMap) <= FieldSum(snowLog.start)
        /\ FieldMax(heightMap) <= FieldMax(snowLog.start)

\* C3 witness: a frame step without deposit and without reset in which a
\* cell rose while the total fell.
C3_Witness ==
    /\ snowLog.ran /\ snowLog.deposits = 0 /\ ~snowLog.cleared
    /\ \E i \in Cells(heightMap) : heightMap[i] > snowLog.start[i]
    /\ FieldSum(heightMap) < FieldSum(snowLog.start)

\* C4: the relaxation phase (3 passes of both sweeps) leaves the sum of the
\* cells unchanged.
C4_RelaxationKeepsSum ==
    snowLog.ran => FieldSum(snowLog.relaxed) = FieldSum(snowLog.decayed)

\* C4 witness: a relaxation phase that moved snow between cells.
C4_Witness ==
    /\ snowLog.ran
    /\ \E i \in Cells(snowLog.relaxed) : snowLog.relaxed[i] > snowLog.decayed[i]
    /\ \E i \in Cells(snowLog.relaxed) : snowLog.relaxed[i] < snowLog.decayed[i]

\* C5: a frame step fills the field with zero if and only if its motion
\* score is > 0.3 or its overflow check fired, and it does so within that
\* step: right after step 5 the field is all zero when triggered and the
\* relaxed field otherwise.
C5_ResetIffTriggered ==
    snowLog.ran =>
        /\ snowLog.cleared <=> ResetTriggered
        /\ snowLog.cleared => AllZero(snowLog.afterReset)
        /\ ~snowLog.cleared => snowLog.afterReset = snowLog.relaxed

\* C5 witness: a reset triggered by the overflow check alone, on a field
\* that held snow.
C5_Witness ==
    /\ snowLog.ran /\ snowLog.cleared /\ snowLog.motion <= 30
    /\ ~AllZero(snowLog.relaxed)

\* C6 as stated: when the frame step that triggered a reset has completed,
\* every cell of the field is 0.
C6_ZeroAfterTriggeringStep == ResetTriggered => AllZero(heightMap)

\* C6 amended: in a frame step that triggers a reset the field is all zero
\* right after the reset phase; when the step has completed the field holds
\* only what flakes deposited after the reset in that step: every cell
\* above 0 lies within 8 columns of a collision of that step, and the field
\* is all zero when no flake collided.
C6_ZeroUpToLaterDeposits ==
    ResetTriggered =>
        /\ AllZero(snowLog.afterReset)
        /\ snowLog.deposits = 0 => AllZero(heightMap)
        /\ \A i \in Cells(heightMap) :
             heightMap[i] > 0 =>
                \E hit \in snowLog.hits : Abs(i - hit.col) <= 8

\* C6 witness: a reset of a field that held snow, followed in the same step
\* by a deposit.
C6_Witness ==
    /\ ResetTriggered /\ ~AllZero(snowLog.relaxed)
    /\ snowLog.deposits > 0 /\ ~AllZero(heightMap)

\* The profile of a field that is all zero: every point on the bottom edge.
FlatProfile == [x \in DOMAIN snowLog.profile |-> snowHeight * 100]

\* C7 as stated: in a frame step that triggers a reset the profile handed
\* to the renderer is the one of the zeroed field.
C7_RendersZeroedField == ResetTriggered => snowLog.profile = FlatProfile

\* C7 amended: the pile is rendered before the reset is applied: in every
\* frame step, also one that triggers a reset, the profile handed to the
\* renderer is the one of the field after decay and relaxation, before the
\* reset.
C7_RendersPreResetField ==
    snowLog.ran =>
        /\ DOMAIN snowLog.profile =
             {x \in Cells(snowLog.relaxed) : x % 2 = 0}
        /\ \A x \in DOMAIN snowLog.profile :
             snowLog.profile[x] =
                IF snowLog.relaxed[x] > 50
                THEN snowHeight * 100 - snowLog.relaxed[x]
                ELSE snowHeight * 100

\* C7 witness: a frame step that triggered a reset and rendered a pile.
C7_Witness ==
    /\ ResetTriggered /\ snowLog.cleared
    /\ snowLog.profile # FlatProfile

C9_NoGrowthWhileInactive ==
    [][~snowActive' => Len(snowParticles') <= Len(snowParticles)]_vars
\* C10 as stated: once the overlay is mounted and inactive, and unless it is
\* activated again, the pool eventually becomes empty.
C10_PoolDrains ==
    (snowMounted /\ ~snowActive) ~> (snowActive \/ Len(snowParticles) = 0)

(***************************************************************************)
(* Properties of getColor.                                                 *)
(***************************************************************************)
ColorCalled == colorArg # NoParticle

\* C16 (as stated): at normalized life 1.0 getColor returns exactly the mid
\* colour of the particle's palette, for every palette.
C16_MidAtFullLife ==
    (ColorCalled /\ colorArg.life = colorArg.maxLife)
        => colorOut = PALETTES[colorArg.palette + 1].mid

\* C16 (amended): at normalized life 1.0 getColor returns exactly the core
\* colour of the particle's palette, for every palette.
C16_CoreAtFullLife ==
    (ColorCalled /\ colorArg.life = colorArg.maxLife)
        => colorOut = PALETTES[colorArg.palette + 1].core

C16_Witness ==
    /\ ColorCalled /\ colorArg.life = colorArg.maxLife
    /\ colorArg.palette = 2
    /\ colorOut = <<0, 50, 255>>

Between(x, u, v) == (u <= x /\ x <= v) \/ (v <= x /\ x <= u)

\* C17: at normalized life exactly 0.6 getColor returns the mid colour and
\* at 0 the outer colour; for a life in [0, 0.6] every channel lies between
\* the outer and the mid value of that channel; and the colour is the same
\* whatever the layer of the particle.
C17_AgedHalfOfGradient ==
    ColorCalled =>
        /\ 5 * colorArg.life = 3 * colorArg.maxLife
               => colorOut = PALETTES[colorArg.palette + 1].mid
        /\ colorArg.life = 0
               => colorOut = PALETTES[colorArg.palette + 1].outer
        /\ (0 <= colorArg.life /\ 5 * colorArg.life <= 3 * colorArg.maxLife)
               => \A k \in 1 .. 3 :
                      Between(colorOut[k], PALETTES[colorArg.palette + 1].outer[k],
                              PALETTES[colorArg.palette + 1].mid[k])
        /\ \A ly \in Layers :
               GetColor([colorArg EXCEPT !.layer = ly], colorArg.life, colorArg.maxLife) = colorOut

C17_Witness ==
    /\ ColorCalled
    /\ colorArg.layer = "outer" /\ colorArg.palette = 0
    /\ colorArg.maxLife = 5000 /\ colorArg.life = 3000
    /\ colorOut = <<123, 131, 255>>

(***************************************************************************)
(* Properties of the emission of firework groups.                          *)
(***************************************************************************)
\* The frames a particle has lived: life falls by 1 (LifeStep) a frame.
AgeOf(p) == (p.maxLife - p.life) \div LifeStep

\* The particles of the pool that were spawned by the last update().
FreshParticles == {i \in 1 .. Len(fwParticles) : AgeOf(fwParticles[i]) = 1}

\* update() has run in this step.
FwUpdated == fwMounted' /\ fwLog'.ran /\ frameCount' # frameCount

\* C18: a group is emitted in a frame step if and only if the effect is
\* active, a target is present and the frame counter, which every frame
\* step advances by one, is a multiple of 4; hence a group is never emitted
\* while inactive or without a target, and when one is emitted every other
\* particle of the pool is at least 4 frames older than it.
C18_EmitsEveryFourthActiveFrame ==
    [][FwUpdated =>
          /\ frameCount' = frameCount + 1
          /\ fwLog'.emitted <=> (FreshParticles' # {})
          /\ (FreshParticles' # {})
                 <=> (isActiveRef /\ targetPosRef # NullPoint /\ frameCount' % 4 = 0)
          /\ (FreshParticles' # {})
                 => \A i \in 1 .. Len(fwParticles') :
                        i \in FreshParticles' \/ AgeOf(fwParticles'[i]) >= 1 + 4]_vars

C18_Witness ==
    /\ fwMounted /\ fwLog.ran
    /\ frameCount = 8
    /\ FreshParticles # {}
    /\ \E i \in 1 .. Len(fwParticles) : AgeOf(fwParticles[i]) = 5

\* C19: every emitted group adds exactly 18 particles to the pool, all of
\* one palette of the palette table, each pushed with life = maxLife; and
\* every particle an update() keeps has the palette and the maxLife it had
\* before.
C19_GroupOfEighteenOnePalette ==
    [][/\ FwUpdated =>
          /\ Len(fwLog'.spawned) = (IF fwLog'.emitted THEN 18 ELSE 0)
          /\ fwLog'.before = Len(fwParticles) + Len(fwLog'.spawned)
          /\ Cardinality(FreshParticles') = Len(fwLog'.spawned)
          /\ \A i \in 1 .. Len(fwLog'.spawned) :
                 /\ fwLog'.spawned[i].palette + 1 \in DOMAIN PALETTES
                 /\ fwLog'.spawned[i].palette = fwLog'.spawned[1].palette
                 /\ fwLog'.spawned[i].life = fwLog'.spawned[i].maxLife
          /\ \A i \in FreshParticles', j \in FreshParticles' :
                 fwParticles'[i].palette = fwParticles'[j].palette
          /\ Len(fwLog'.kept) = Len(fwParticles')
          /\ \A k \in 1 .. Len(fwParticles') :
                 fwLog'.kept[k] <= Len(fwParticles)
                     => /\ fwParticles'[k].palette = fwParticles[fwLog'.kept[k]].palette
                        /\ fwParticles'[k].maxLife = fwParticles[fwLog'.kept[k]].maxLife
                        /\ fwParticles'[k].life = fwParticles[fwLog'.kept[k]].life - LifeStep
       /\ (fwMounted' /\ ~FwUpdated) => fwParticles' = fwParticles]_vars

\* Two groups of different palettes in the pool, the older one aged.
C19_Witness ==
    /\ fwMounted /\ fwLog.ran /\ fwLog.emitted
    /\ Cardinality(FreshParticles) = 18
    /\ Len(fwParticles) >= 36
    /\ \E i \in 1 .. Len(fwParticles) :
           /\ AgeOf(fwParticles[i]) >= 5
           /\ fwParticles[i].palette # fwParticles[Len(fwParticles)].palette

\* x is the middle of u and v, up to the half unit the model drops.
Halfway(x, u, v) == Abs(2 * x - (u + v)) <= 1

MidPoint(pt, a, b) == Halfway(pt.x, a.x, b.x) /\ Halfway(pt.y, a.y, b.y)

\* The place a particle was pushed at: the oldest point of its trail,
\* which holds up to 8 points.
OriginOf(p) == p.history[1]

\* C20 (as stated): during a continuous activation with a target, the
\* origin of every group after the first is the midpoint between the origin
\* of the group emitted before it and the raw target of its own frame.
C20_MidpointOfGroupOrigins ==
    [][(FwUpdated /\ fwLog'.emitted /\ fwLog.ran /\ fwLog.lastGroup # NullPoint)
          => MidPoint(fwLog'.emitPos, fwLog.lastGroup, targetPosRef)]_vars

\* C20 (amended): the tracked emission point moves once per frame step.  In
\* a frame step that is active with a target the tracked point becomes the
\* raw target if none was tracked, and else the midpoint between its value
\* before the step and the raw target; a group emitted in that step starts
\* at the tracked point.  Any other frame step drops the tracked point.
C20_MidpointOfTrackedPointEachFrame ==
    [][FwUpdated =>
          IF isActiveRef /\ targetPosRef # NullPoint
          THEN /\ lastEmitPos' # NullPoint
               /\ IF lastEmitPos = NullPoint
                  THEN lastEmitPos' = targetPosRef
                  ELSE MidPoint(lastEmitPos', lastEmitPos, targetPosRef)
               /\ \A i \in FreshParticles' : OriginOf(fwParticles'[i]) = lastEmitPos'
               /\ fwLog'.emitted => fwLog'.lastGroup = lastEmitPos'
          ELSE lastEmitPos' = NullPoint /\ fwLog'.lastGroup = NullPoint]_vars

\* A group emitted after the target moved: four frames after the group
\* before it, 1/16 of the way from the target, not halfway.
C20_Witness ==
    /\ fwMounted /\ fwLog.ran /\ fwLog.emitted
    /\ frameCount = 8
    /\ targetPosRef = [x |-> 4200, y |-> 2600]
    /\ lastEmitPos = [x |-> 4000, y |-> 2500]
    /\ \E i \in 1 .. Len(fwParticles) :
           AgeOf(fwParticles[i]) = 5 /\ OriginOf(fwParticles[i]) = [x |-> 1000, y |-> 1000]
    /\ \A i \in FreshParticles : OriginOf(fwParticles[i]) = lastEmitPos

(***************************************************************************)
(* Properties of the snow flakes and of the guards of the field.           *)
(***************************************************************************)
\* update() has run in this step.
SnowUpdated == snowMounted' /\ snowLog'.ran /\ clock' = clock + 1

\* C21: a frame step of the snow overlay whose height field is null leaves
\* the field null, renders no pile, deposits nothing, clears nothing and
\* leaves a frame callback pending; every flake of the pool falls by its
\* vy, and a flake whose y then exceeds the surface height is given a fresh
\* spawn at y = -10 in the same step, so no flake ends below the edge.
C21_NullFieldSkipped ==
    [][(SnowUpdated /\ heightMap = NullField) =>
          /\ heightMap' = NullField
          /\ snowLog'.profile = <<>>
          /\ snowLog'.deposits = 0 /\ ~snowLog'.cleared /\ ~snowLog'.overflow
          /\ snowPending'
          /\ \A i \in 1 .. Len(snowParticles) :
                 IF snowParticles[i].y + snowParticles[i].vy > snowHeight * 100
                 THEN snowParticles'[i].y = -1000
                 ELSE /\ snowParticles'[i].y = snowParticles[i].y + snowParticles[i].vy
                      /\ snowParticles'[i].vy = snowParticles[i].vy
          /\ \A i \in 1 .. Len(snowParticles') :
                 snowParticles'[i].y <= snowHeight * 100]_vars

\* A frame step on the null field has just recycled a flake that fell past
\* the bottom edge, and has drawn another.
C21_Witness ==
    /\ snowMounted /\ snowLog.ran /\ snowPending
    /\ heightMap = NullField /\ snowLog.start = NullField
    /\ snowLog.exits # {}
    /\ snowLog.drawn > 0
    /\ \E i \in 1 .. Len(snowParticles) : snowParticles[i].y = -1000

C22_FiresOnSampledCellOnly ==
    snowLog.ran =>
        /\ snowLog.overflow <=> OverflowFired
        /\ snowLog.overflow => AllZero(heightMap)

\* All 500 deposits made on the surface of height 100: column 50 stands
\* far above the surface, the sampled columns 40 and 60 far below
\* height - 10, and the check has not fired.
C22_PileUnseen ==
    /\ clock = 500 /\ snowHeight = 100
    /\ heightMap[50] > 100 * 100
    /\ heightMap[40] < 90 * 100 /\ heightMap[60] < 90 * 100
    /\ ~snowLog.overflow

\* C23: in every reachable state, so at the end of every frame step, every
\* cell of the height field is at most the surface height.
C23_FieldBelowSurface ==
    \A i \in Cells(heightMap) : heightMap[i] <= snowHeight * 100

\* The visit of the pair (me, other) on field h does what is asked of it:
\* whichever of the two cells is more than 1.0 above the other gives 0.4
\* to it.
SettlesBothWays(h, after, me, other) ==
    /\ h[me] > h[other] + 100
           => after[me] = h[me] - 40 /\ after[other] = h[other] + 40
    /\ h[other] > h[me] + 100
           => after[other] = h[other] - 40 /\ after[me] = h[me] + 40

\* The visits of pass p of the smoothing that started from field h0: the
\* sweep to the right visits (i, i + 1) for i = 1 .. w - 2 on the field the
\* visits before it left, the sweep to the left then visits (i, i - 1) for
\* i = w - 2 .. 1.
PassSettlesBothWays(h0, h1, w) ==
    /\ \A i \in 1 .. w - 2 :
           SettlesBothWays(SweepRightRange(h0, 1, i - 1),
                           SweepRightRange(h0, 1, i), i, i + 1)
    /\ \A i \in 1 .. w - 2 :
           SettlesBothWays(SweepLeftRange(h1, w - 2, i + 1),
                           SweepLeftRange(h1, w - 2, i), i, i - 1)

\* C24: in every sweep of every pass of the smoothing of the last frame
\* step, every pair of adjacent cells, the pairs with cell 0 and with cell
\* width - 1 included, is settled when it is visited: the taller cell, if
\* more than 1.0 above the other, gives it 0.4.
C24_EveryPairSettles ==
    (snowLog.ran /\ snowLog.start # NullField) =>
        \A p \in 1 .. 3 :
            PassSettlesBothWays(RelaxPasses(snowLog.decayed, snowWidth, p - 1),
                                SweepRight(RelaxPasses(snowLog.decayed, snowWidth, p - 1),
                                           1, snowWidth),
                                snowWidth)

----------------------------------------------------------------------------
\* Properties of the walks from the last index down

FrRendered == frMounted /\ frMounted' /\ frLog'.ran /\ clock' = clock + 1 /\ frWidth' = frWidth /\ frHeight' = frHeight

\* The particle that stood at index i when the loop of this step began: one
\* of the former pool, or one that the step spawned behind it.
LoopStartAt(i) == IF i <= Len(fwParticles) THEN fwParticles[i] ELSE fwLog'.spawned[i - Len(fwParticles)]

ParticleStays(p) == p.life - LifeStep > 0

ParticleMovedOnce(p, q) == q.life = p.life - LifeStep /\ q.x = p.x + p.vx /\ q.y = p.y + p.vy

DripStays(d) == d.life - 100 > 0 /\ d.y + d.vy <= 100 * frHeight

DripMovedOnce(d, e) == e.life = d.life - 100 /\ e.x = d.x + d.vx /\ e.y = d.y + d.vy

EachUpdatedOnce(stay, now, MovedOnce(_, _)) == Len(now) = Len(stay) /\ \A k \in 1..Len(stay) : MovedOnce(stay[k], now[k])

\* C25: the loop from the last index down with removals gives every
\* fireworks particle and every frost drip that is in the pool when the loop
\* starts exactly one update in the frame: the pool afterwards is, in the
\* same order, each element that stays moved and aged once, and the elements
\* that are gone are exactly those the removal test takes out after one
\* update (kept names, for each particle that stays, its index at the start
\* of the loop).
C25_EachElementUpdatedOnce ==
    [][/\ FwUpdated =>
            /\ Len(fwParticles') = Cardinality({i \in 1 .. Len(fwParticles) + Len(fwLog'.spawned) :
                                                  ParticleStays(LoopStartAt(i))})
            /\ Len(fwLog'.kept) = Len(fwParticles')
            /\ \A k \in 1 .. Len(fwParticles') :
                  /\ k > 1 => fwLog'.kept[k - 1] < fwLog'.kept[k]
                  /\ fwLog'.kept[k] <= Len(fwParticles) + Len(fwLog'.spawned)
                  /\ ParticleStays(LoopStartAt(fwLog'.kept[k]))
                  /\ ParticleMovedOnce(LoopStartAt(fwLog'.kept[k]), fwParticles'[k])
       /\ FrRendered => EachUpdatedOnce(SelectSeq(drips, DripStays), drips', DripMovedOnce)]_vars

\* A removal below an element that stays, in either pool.
C25_Witness ==
    \/ /\ fwLog.ran /\ fwLog.removed > 0
       /\ \E k \in 1..Len(fwLog.kept) : fwLog.kept[k] > k
    \/ frLog.ran /\ frLog.before = 2 /\ frLog.removed = 1 /\ Len(drips) = 1

\* The flakes the last update() recycled at the bottom edge, inside the
\* columns of an initialized field, without a deposit.
BottomExits == {e \in snowLog.exits : snowLog.start # NullField /\ e.col >= 0 /\ e.col < snowWidth}

\* C26 as stated: a flake is recycled by the bottom-edge rule, without a
\* deposit and inside the columns of an initialized field, only where the
\* field is 0.
C26_ExitsOnlyOverZero == snowLog.ran => \A e \in BottomExits : e.pile = 0

\* C26: a flake recycled by the bottom-edge rule, without a deposit and
\* inside the columns of an initialized field, is below the bottom edge by
\* less than 2 minus the field value at its column; the field value there is
\* therefore below 2, and need not be 0.
C26_ExitsOnlyOverThinPile ==
    snowLog.ran => \A e \in BottomExits : /\ e.y > 100 * snowHeight
                                          /\ e.pile >= 0
                                          /\ e.pile < CollisionDepth - (e.y - 100 * snowHeight)

C26_Witness == snowLog.ran /\ \E e \in BottomExits : e.pile > 0

\* The pending frame callback has run update() in this step.
SnowFrameRan == snowMounted /\ SnowUpdated /\ inputs' = inputs

\* What a flake of the given size adds dist columns from where it lands.
KernelShare(size, dist) == (size * Falloff(dist)) \div 2000

\* C27: a frame step in which flakes collide (y >= height - field[col] + 2
\* with col = floor(x) in [0, width)) adds to the field, for each of them,
\* size * 0.5 * falloff(|distance|) in the cells within 8 columns of col and
\* inside [0, width), most at col itself, and leaves every other cell as it
\* was before the flakes moved; each such flake is replaced where it stands
\* in the pool by a fresh one at y = -10, so that the pool changes in size
\* only by the flake the replenishment adds.
C27_CollisionDepositsKernel ==
    [][(SnowFrameRan /\ snowLog'.deposits > 0) =>
          /\ \A hit \in snowLog'.hits :
                /\ hit.col \in Cells(heightMap')
                /\ hit.y >= 100 * snowHeight - hit.pile + CollisionDepth
                /\ \A d \in 0 .. DepositRadius :
                      KernelShare(hit.size, d) <= KernelShare(hit.size, 0)
                /\ KernelShare(hit.size, 0) = hit.size \div 2
          /\ \A i \in Cells(heightMap') :
                /\ heightMap'[i] = snowLog'.afterReset[i] + DepositedAt(snowLog'.hits, i)
                /\ (\A hit \in snowLog'.hits : Abs(i - hit.col) > 8)
                      => heightMap'[i] = snowLog'.afterReset[i]
          /\ Len(snowParticles') = Len(snowParticles)
                + (IF snowActive /\ Len(snowParticles) < TargetPoolSize THEN 1 ELSE 0)
          /\ \A k \in 1 .. Len(snowParticles) :
                \/ snowParticles'[k].y = SpawnY
                \/ snowParticles'[k] = Move(snowParticles[k], snowWidth)
          /\ Cardinality({k \in 1 .. Len(snowParticles') : snowParticles'[k].y = SpawnY})
                >= snowLog'.deposits]_vars

\* C27 witness: in a frame step a flake has landed, the field holds a cell
\* farther than 8 columns from every landing column, and the cell at a
\* landing column grew.
C27_Witness ==
    /\ clock >= 2 /\ inputs = 0
    /\ snowLog.ran /\ snowLog.deposits > 0 /\ snowLog.sizeBefore > 0
    /\ \E i \in Cells(heightMap) : \A hit \in snowLog.hits : Abs(i - hit.col) > 8
    /\ \E hit \in snowLog.hits : heightMap[hit.col] > snowLog.afterReset[hit.col]

\* Where the flake is after p.x += p.vx; p.y += p.vy and the sine drift,
\* before the wrap.
DriftedX(p) == p.x + p.vx + TruncDiv(50 * SinMilli(TruncDiv(p.y + p.vy, 5)), 1000)

\* The flake was given a fresh spawn in this step.
Respawned(q) == q.y = SpawnY

\* C28: after every frame step of the snow overlay every flake of the pool
\* has 0 <= x <= width and y <= height: a flake that the step moved to x < 0
\* is at x = width, one moved to x > width is at x = 0, unless it was given
\* a fresh spawn, and a flake moved below the bottom edge is given a fresh
\* spawn in the same step.
C28_FlakesStayOnSurface ==
    [][SnowUpdated =>
          /\ \A k \in 1 .. Len(snowParticles') :
                /\ snowParticles'[k].x >= 0 /\ snowParticles'[k].x <= 100 * snowWidth'
                /\ snowParticles'[k].y <= 100 * snowHeight'
          /\ (snowParticles # <<>>) =>
                \A k \in 1 .. Len(snowParticles) :
                   /\ DriftedX(snowParticles[k]) < 0
                         => (snowParticles'[k].x = 100 * snowWidth' \/ Respawned(snowParticles'[k]))
                   /\ DriftedX(snowParticles[k]) > 100 * snowWidth'
                         => (snowParticles'[k].x = 0 \/ Respawned(snowParticles'[k]))
                   /\ snowParticles[k].y + snowParticles[k].vy > 100 * snowHeight'
                         => Respawned(snowParticles'[k])]_vars

\* C28 witness: a flake that left on the left stands at x = width.
C28_Witness ==
    /\ snowLog.ran
    /\ \E k \in 1 .. Len(snowParticles) :
          snowParticles[k].x = 100 * snowWidth /\ ~Respawned(snowParticles[k])

\* The pending frame callback has run render() in this step.
FrStepped == frMounted /\ frMounted' /\ frLog'.ran /\ clock' # clock

\* The drip is spent or below the surface once render() has moved and aged it.
DripDue(d) == d.life - 100 <= 0 \/ d.y + d.vy > 100 * frHeight

\* C29 as stated: a drip leaves the pool only in the frame step that leaves
\* its life <= 0 or its y greater than the surface height, not before.
C29_DripsLeaveOnlyInFrames ==
    [][Len(drips') < Len(drips) =>
          (FrStepped /\ Len(drips') = Cardinality({k \in 1 .. Len(drips) : ~DripDue(drips[k])}))]_vars

\* C29: a frame step takes out of the pool exactly the drips that it leaves
\* with life <= 0 or with y greater than the surface height, so that no
\* drip stays past that step and none leaves in an earlier frame step; a
\* drip leaves the pool otherwise only when a reset empties the pool; life
\* decreases by 1 per frame step, and with the frames scheduled fairly a
\* pool that holds drips is eventually empty; a frame step leaves lastPoint
\* as it was.
C29_DripsLeaveWhenDue ==
    /\ [][FrStepped =>
            /\ Len(drips') = Cardinality({k \in 1 .. Len(drips) : ~DripDue(drips[k])})
            /\ frLog'.removed = Len(drips) - Len(drips')
            /\ \A j \in 1 .. Len(drips') :
                  /\ drips'[j].life > 0 /\ drips'[j].y <= 100 * frHeight
                  /\ \E k \in 1 .. Len(drips) :
                        ~DripDue(drips[k]) /\ drips'[j].life = drips[k].life - 100
            /\ lastPoint' = lastPoint]_vars
    /\ [][(Len(drips') < Len(drips) /\ ~FrStepped) =>
            (drips' = <<>> /\ resetKey' # resetKey)]_vars
    /\ (drips # <<>>) ~> (drips = <<>>)

\* C29 witness: a frame step removed a drip whose life had run out above
\* the bottom edge, while a stroke was in progress.
C29_Witness ==
    /\ frLog.ran /\ frLog.removed > 0 /\ frLog.expired > 0 /\ frLog.fallen = 0
    /\ lastPoint # NullPoint

\* The trail now, given the trail before and the place the particle stood
\* at before its move: the place is the last entry, the entries before it
\* are the latest of the former trail in their order, and of a trail of 8
\* the oldest entry is gone.
TrailFollows(was, place, now) ==
    /\ Len(now) = Min(Len(was) + 1, 8)
    /\ now[Len(now)] = place
    /\ \A j \in 1 .. Len(now) - 1 : now[j] = was[j + Len(was) + 1 - Len(now)]

TrailStepped(p, q) == q.life = p.life - LifeStep /\ TrailFollows(p.history, [x |-> p.x, y |-> p.y], q.history)

\* C30: after every frame step of the fireworks overlay the trail of every
\* particle of the pool holds at most 8 positions, as many as the frames the
\* particle has lived up to 8, in the order they were visited: the step
\* appends the position the particle had before its move, and when that is a
\* 9th position the oldest one is dropped, so that the trail is exactly the
\* latest pre-move positions.
C30_TrailKeepsLatestEight ==
    [][FwUpdated =>
          /\ \A k \in 1 .. Len(fwParticles') :
                /\ Len(fwParticles'[k].history) <= 8
                /\ Len(fwParticles'[k].history) = Min(AgeOf(fwParticles'[k]), 8)
          /\ Len(fwLog'.kept) = Len(fwParticles')
          /\ \A k \in 1 .. Len(fwParticles') :
                TrailStepped(LoopStartAt(fwLog'.kept[k]), fwParticles'[k])]_vars

\* C30 witness: a particle that has lived more than 8 frames holds a trail
\* of 8 positions, the oldest of which is no longer its origin.
C30_Witness ==
    /\ fwLog.ran
    /\ \E k \in 1 .. Len(fwParticles) :
          /\ AgeOf(fwParticles[k]) > 8
          /\ Len(fwParticles[k].history) = 8
          /\ fwParticles[k].history[1] # fwParticles[k].history[2]

----------------------------------------------------------------------------
\* Properties of the guards and of the scheduling of the loops

\* This step emitted a group at a point with a coordinate that is not finite.
OddEmission == FwUpdated /\ fwLog'.emitted /\ (lastEmitPos'.x = NonFinite \/ lastEmitPos'.y = NonFinite)

\* C31: a frame step that emits at a point with a coordinate that is not
\* finite skips the centre glow and nothing else: the group of 18 is pushed,
\* the loop visits every particle of the pool (each is removed or drawn, the
\* ones that stay have aged by one frame), the frame counter advances and a
\* frame callback is left pending; a frame step that emits at a finite point
\* draws the glow.
C31_OnlyGlowSkipped ==
    [][/\ OddEmission =>
            /\ ~fwLog'.glow
            /\ Len(fwLog'.spawned) = 18
            /\ fwLog'.before = Len(fwParticles) + 18
            /\ fwLog'.removed + fwLog'.drawn = fwLog'.before
            /\ Len(fwParticles') = Cardinality({i \in 1 .. fwLog'.before : ParticleStays(LoopStartAt(i))})
            /\ \A k \in 1 .. Len(fwParticles') :
                  fwParticles'[k].life = LoopStartAt(fwLog'.kept[k]).life - LifeStep
            /\ frameCount' = frameCount + 1
            /\ fwPending'
       /\ (FwUpdated /\ fwLog'.emitted /\ ~OddEmission) => fwLog'.glow]_vars

\* C31 witness: a frame step emitted at a point that is not finite into a
\* pool that held particles, drew no glow, removed and drew particles and
\* left a callback pending.
C31_Witness ==
    /\ fwLog.ran /\ fwLog.emitted /\ ~fwLog.glow
    /\ lastEmitPos # NullPoint /\ (lastEmitPos.x = NonFinite \/ lastEmitPos.y = NonFinite)
    /\ fwLog.start > 0 /\ fwLog.drawn > 0
    /\ fwPending

\* The overlay of this behaviour is mounted.
LoopMounted == snowMounted \/ fwMounted \/ frMounted

\* C32: for each overlay, whatever the order of mount, prop changes that
\* restart the loop, resizes and unmount, at most one frame callback is
\* pending at any time: while the overlay is mounted exactly one is pending
\* and animationFrameRef names it (a restart cancels the pending one before
\* update() or render() requests the next), and once the overlay is torn
\* down none is pending, so that no frame step runs any more.
C32_OneCallbackPending ==
    /\ raf.queued <= 1
    /\ LoopMounted => (raf.queued = 1 /\ raf.live)
    /\ ~LoopMounted => (raf.queued = 0 /\ ~snowPending /\ ~fwPending /\ ~frPending)
    /\ (snowPending \/ fwPending \/ frPending) => raf.queued = 1

\* C32 witness: the loop was restarted by a prop change or a resize after
\* frame steps had run, and one callback is pending.
C32_Witness ==
    /\ LoopMounted /\ inputs > 0 /\ clock > 2
    /\ (snowLog.ran \/ fwLog.ran \/ frLog.ran)
    /\ raf.queued = 1

\* C33: the pool of the fireworks overlay is bounded: groups of 18 are
\* pushed at most every 4th frame and every particle lives less than 80
\* frames, so at the end of a frame step the pool holds no more than
\* 18 * (80 / 4) = 360 particles, whatever the inputs.
C33_PoolAtMost360 ==
    /\ Len(fwParticles) <= 360
    /\ \A k \in 1 .. Len(fwParticles) :
         LET p == fwParticles[k]
             age == (p.maxLife - p.life) \div LifeStep
         IN  /\ p.maxLife < 8000 /\ p.life > 0
             /\ age \in 1 .. 79
             /\ (frameCount - age + 1) % 4 = 0
    /\ \A a \in 1 .. 79 :
         Cardinality({k \in 1 .. Len(fwParticles) :
                        fwParticles[k].maxLife - fwParticles[k].life = a * LifeStep}) <= 18

\* C33 witness: the overlay has emitted for longer than any particle lives:
\* the step removed particles of the oldest groups and the pool is full of
\* the groups of the last frames.
C33_Witness ==
    /\ fwLog.ran /\ frameCount > 80
    /\ fwLog.removed > 0
    /\ Len(fwParticles) > 180

\* C34: while the snow overlay is mounted its pool never shrinks and never
\* exceeds the target population: a start of the loop adds the initial
\* flakes only to an empty pool, a run of update() adds at most one flake
\* and only to a pool below the target while active, and a flake that hits
\* the pile or leaves at the bottom is recycled in place.
C34_PoolGrowsToTarget ==
    [][LET before == Len(snowParticles)
           grown  == Len(snowParticles') - before
       IN  /\ Len(snowParticles') <= TargetPoolSize
           /\ snowMounted' =>
                /\ grown >= 0
                /\ grown > 1 => /\ before = 0 /\ ~snowMounted
                                /\ grown \in {InitialPoolSize, InitialPoolSize + 1}
                /\ before > 0 /\ grown = 1 => snowActive' /\ before < TargetPoolSize
                /\ snowLog'.ran =>
                     snowLog'.spawned = (IF snowActive' /\ snowLog'.sizeBefore < TargetPoolSize
                                         THEN 1 ELSE 0)]_vars

\* C34 witness: after a restart of the loop, a run of update() in which a
\* flake hit the pile and was recycled leaves the pool at the target.
C34_Witness ==
    /\ snowMounted /\ snowLog.ran /\ inputs > 0
    /\ Len(snowParticles) = TargetPoolSize
    /\ snowLog.hits # {}

\* The refs hold an active flag and a target after an interruption: the
\* run of update() before this one saw an inactive flag or no target, or
\* the refs held one at some time since that run.
Reactivated ==
    /\ isActiveRef /\ targetPosRef # NullPoint /\ fwLog.ran
    /\ fwLog.gap \/ ~(fwLog.active /\ fwLog.target # NullPoint)

\* C35 (as stated): a run of update() that is inactive or without a target
\* clears the tracked emission point, and the first run after a
\* (re)activation with a target emits at the raw target.
C35_RawTargetAfterReactivation ==
    [][FwUpdated =>
          IF isActiveRef /\ targetPosRef # NullPoint
          THEN Reactivated => /\ fwLog'.emitPos = targetPosRef
                              /\ lastEmitPos' = targetPosRef
          ELSE lastEmitPos' = NullPoint]_vars

\* C35 (amended): a run of update() that is inactive or without a target
\* clears the tracked emission point, so a run with a target that follows
\* such a run emits at the raw target.  An interruption that begins and
\* ends between two runs clears nothing: the run after it smooths from the
\* point tracked before the interruption.
C35_RawTargetAfterIdleRun ==
    [][FwUpdated =>
          IF isActiveRef /\ targetPosRef # NullPoint
          THEN IF fwLog.ran /\ fwLog.active /\ fwLog.target # NullPoint
               THEN /\ lastEmitPos # NullPoint
                    /\ MidPoint(fwLog'.emitPos, lastEmitPos, targetPosRef)
                    /\ lastEmitPos' = fwLog'.emitPos
               ELSE /\ lastEmitPos = NullPoint
                    /\ fwLog'.emitPos = targetPosRef
                    /\ lastEmitPos' = targetPosRef
          ELSE lastEmitPos' = NullPoint]_vars

\* C35 witness: the flag was cleared and set again between two runs of
\* update(), and the second run emitted between the point tracked before
\* the interruption and the target.
C35_Witness ==
    /\ fwMounted /\ fwLog.ran /\ fwLog.resumed
    /\ fwLog.active /\ fwLog.target # NullPoint
    /\ fwLog.lastBefore # NullPoint
    /\ fwLog.emitPos # fwLog.target
    /\ lastEmitPos = fwLog.emitPos

====
